---------------------------- MODULE Spec2Model ----------------------------
(***************************************************************************)
(* A model of gdrive-folder-migrator: the request-rate governor            *)
(* (tools/RateLimiter.py), the response cache (tools/APICache.py), the     *)
(* tree enumerator and folder operations (tools/FolderManager.py), the     *)
(* file copy (tools/FileManager.py), the validator                         *)
(* (tools/ValidationManager.py), the comparison                            *)
(* (tools/ComparisonManager.py) and the sync engine                        *)
(* (tools/MigrationManager.py).                                            *)
(*                                                                         *)
(* The specifications share the variables:                                 *)
(*   SpecRL     concurrent callers of RateLimiter.wait_if_needed           *)
(*              (SpecRLFair: time passes, sleeps end, the lock is fair)    *)
(*   SpecRetry  one caller of RateLimiter.execute_with_retry               *)
(*              (SpecRetryFair: the loop keeps taking its steps)           *)
(*   Spec       MigrationManager.execute_sync_migration against a remote   *)
(*              store that may fail a call, one run of migrate.py          *)
(*              or one run of migrate.py --compare or --print-structure    *)
(*   SpecTwice  migrate.py run twice in succession, no call failing        *)
(*   SpecDeep   as Spec, over trees of nested folders                      *)
(*   SpecCache  APICache on its own: set, get, remove, clear and time      *)
(*   SpecFolders  FolderManager.create_folder called again and again       *)
(*   SpecEnum   the two enumerations of a run, over more trees             *)
(*   SpecGoverned  a call through @rate_limited under a configuration      *)
(*   SpecFaulty  as Spec, the service failing up to two calls of a run     *)
(*   SpecReconf  wait_if_needed and configure_rate_limits, statement by    *)
(*              statement, in any interleaving                             *)
(*   SpecSingletons  threads constructing RateLimiter() and APICache()     *)
(*   SpecNested  threads making governed calls inside governed calls       *)
(*              (SpecNestedFair: threads run, both locks are fair)         *)
(*   SpecPublic  copy_files, get_missing_files_list, get_total_file_count  *)
(*   SpecProgress  the public functions of ProgressManager                 *)
(* Time is counted in whole seconds.                                       *)
(***************************************************************************)
EXTENDS Integers, Sequences, FiniteSets, TLC

VARIABLES
    \* ---- RateLimiter (singleton state) and the clock
    clock,          \* datetime.now(), in seconds
    request_times,  \* RateLimiter.request_times
    rate_limit,     \* RateLimiter.rate_limit
    time_window,    \* RateLimiter.time_window
    request_lock,   \* RateLimiter._request_lock: its holder, or NoThread
    wpc,            \* per thread: position inside wait_if_needed
    wwake,          \* per thread: the time its time.sleep() ends
    wcalls,         \* wait_if_needed calls started
    wdone,          \* wait_if_needed calls returned
    wslept,         \* wait_if_needed calls that slept
    admitted,       \* history: every timestamp ever appended to request_times
    \* ---- execute_with_retry (one call)
    rpc,            \* "loop", "returned", "raised"
    retry_count,    \* local retry_count
    max_retries,    \* parameter max_retries
    max_backoff,    \* parameter max_backoff
    rhist,          \* history: the outcome of every invocation of func
    rsleeps,        \* history: the backoff sleeps taken, <<delay, jitter>>
    rraised,        \* the status of the error raised to the caller, or NoError
    \* ---- the remote store, the process-wide singletons, the sync engine
    store,          \* the nodes of the remote service, in its listing order
    nextId,         \* the next id of NewIds the service gives out
    epoch,          \* history: the number of mutations of the store
    cache,          \* APICache._cache
    prog,           \* ProgressManager.stats
    calls,          \* history: remote calls of this run by kind, admissions
    flog,           \* history: the remote calls that failed
    pc,             \* the phase of execute_sync_migration
    run,            \* the number of the run (one process each)
    max_runs,       \* how many runs the behaviour has
    fail_budget,    \* how many remote calls the service may still fail
    final_validation, \* config migration.final_validation
    source_files, source_folders, dest_files, dest_folders,
    to_copy,        \* the copy plan
    all_paths,      \* _create_subfolders: the sorted source folder paths
    idx,            \* the position of the current pass in its list
    success,        \* _copy_missing_files: success
    results,        \* the return value of each finished run
    ticks,          \* how often time was let pass
    dest_before,    \* history: the store when the current run began
    copy_log,       \* history: per planned item, what the copy pass did
    val,            \* history: what validate_migration returned and compared
    report,         \* what compare_folders returned, or the lines that
                    \* print_folder_structure printed
    \* ---- APICache on its own
    cset,           \* history: per key, the latest set that no remove or
                    \* clear followed
    cgot,           \* history: the last get, its time and the cache around it
    \* ---- the configuration
    cfg_max_retries, \* MigrationManager.max_retries, config migration.max_retries
    prog_raised,    \* the exception the last ProgressManager call raised, or NoError
    \* ---- the construction of the singletons, per class
    instance,       \* cls._instance: 0 for None, else the number of the object
    initialized,    \* _instance._initialized (an absent attribute reads False)
    class_lock,     \* cls._lock: its holder, or NoThread
    kpc,            \* per thread and class: its position in __new__/__init__
    state_inits,    \* history: how often __init__ assigned the shared state
    lock_inits,     \* history: how often __init__ created the instance's lock
    \* ---- governed calls inside governed calls
    stack,          \* per thread: the @rate_limited calls it is inside of
    cache_lock,     \* APICache._cache_lock: its holder, or NoThread
    nested,         \* history: governed calls made inside a governed call
    \* ---- wait_if_needed and configure_rate_limits statement by statement
    wnow,           \* per thread: the local `now` of wait_if_needed
    wcur,           \* per thread: the element its list comprehension is at
    wacc,           \* per thread: the list its comprehension has built
    cfg_window      \* configure_rate_limits: the time_window still to write

govVars == <<clock, request_times, rate_limit, time_window, request_lock,
             wpc, wwake, wcalls, wdone, wslept, admitted>>
retryVars == <<rpc, retry_count, max_retries, max_backoff, rhist, rsleeps,
               rraised>>
engVars == <<store, nextId, epoch, cache, prog, calls, flog, pc, run, max_runs,
             fail_budget, final_validation, source_files, source_folders,
             dest_files, dest_folders, to_copy, all_paths, idx, success,
             results, ticks, dest_before, copy_log, val>>
singVars == <<instance, initialized, class_lock, kpc, state_inits, lock_inits>>
nestVars == <<stack, cache_lock, nested>>
stmtVars == <<wnow, wcur, wacc, cfg_window>>
auxVars == <<report, cset, cgot, cfg_max_retries, prog_raised, singVars, nestVars,
             stmtVars>>
vars == <<govVars, retryVars, engVars, auxVars>>

-----------------------------------------------------------------------------
\* Bounds of the model
MaxTime == 5        \* wait_if_needed calls start while clock <= MaxTime
MaxCalls == 4       \* wait_if_needed calls per behaviour of SpecRL
MaxRate == 2        \* rate_limit ranges over 1..MaxRate in SpecRL
MaxWindow == 2      \* time_window ranges over 1..MaxWindow in SpecRL
MaxRetries == 2     \* max_retries ranges over 0..MaxRetries in SpecRetry

Threads == {"t1", "t2"}
NoThread == "none"

\* RateLimiter.__init__ defaults
DefaultRateLimit == 1000
DefaultTimeWindow == 60
\* execute_with_retry defaults
DefaultMaxRetries == 10
DefaultMaxBackoff == 64
base_delay == 1

\* The outcome of one invocation of func: it returned (line 92), or it raised an
\* error whose resp.status is one of Statuses; NoStatus is the None of line 94.
OK == 200
NoStatus == 0
NoError == <<>>

Min(a, b) == IF a <= b THEN a ELSE b
RECURSIVE Pow2(_)
Pow2(n) == IF n = 0 THEN 1 ELSE 2 * Pow2(n - 1)

-----------------------------------------------------------------------------
\* RateLimiter.wait_if_needed

\* The list comprehension of lines 56-59 and 70-73.
PruneStrict(times, now, w) == SelectSeq(times, LAMBDA t : now - t < w)
PruneInclusive(times, now, w) == SelectSeq(times, LAMBDA t : now - t <= w)
Prune(times, now, w) == PruneStrict(times, now, w)

\* sleep_time of line 62, for a pruned non-empty list
SleepTimeDoubled(times, now, w) == 2 * w - (now - times[1])
SleepTime(times, now, w) == w - (now - times[1])

\* Line 53, `with self._request_lock:` reached: thread t has called
\* wait_if_needed and blocks until the lock is free.
Waiting == {t \in Threads : wpc[t] = "waiting"}
WaitCall(t) ==
    /\ wpc[t] = "idle"
    /\ wcalls + Cardinality(Waiting) < MaxCalls
    /\ clock <= MaxTime
    /\ wpc' = [wpc EXCEPT ![t] = "waiting"]
    /\ UNCHANGED auxVars
    /\ UNCHANGED <<clock, request_times, rate_limit, time_window, request_lock,
                   wwake, wcalls, wdone, wslept, admitted, retryVars, engVars>>

\* Lines 53-68 up to the sleep: thread t takes the lock, reads the clock and
\* prunes; it either appends at once (line 74) and releases, or goes to sleep
\* holding the lock.
WaitEnter(t) ==
    /\ wpc[t] = "waiting"
    /\ request_lock = NoThread
    /\ LET now == clock
           pruned == Prune(request_times, now, time_window)
           full == Len(pruned) >= rate_limit
           sleeps == full /\ SleepTime(pruned, now, time_window) > 0
       IN  /\ wcalls' = wcalls + 1
           /\ IF sleeps
              THEN /\ request_times' = pruned
                   /\ request_lock' = t
                   /\ wpc' = [wpc EXCEPT ![t] = "sleeping"]
                   /\ wwake' = [wwake EXCEPT
                                  ![t] = now + SleepTime(pruned, now, time_window)]
                   /\ wslept' = wslept + 1
                   /\ UNCHANGED <<wdone, admitted>>
              ELSE /\ request_times' = Append(pruned, now)
                   /\ admitted' = Append(admitted, now)
                   /\ wdone' = wdone + 1
                   /\ wpc' = [wpc EXCEPT ![t] = "idle"]
                   /\ UNCHANGED <<request_lock, wwake, wslept>>
    /\ UNCHANGED auxVars
    /\ UNCHANGED <<clock, rate_limit, time_window, retryVars, engVars>>

\* Lines 68-74: time.sleep() has returned (not before its time), the clock is
\* read again, the list pruned again, the timestamp appended, the lock released.
WaitWake(t) ==
    /\ wpc[t] = "sleeping"
    /\ clock >= wwake[t]
    /\ LET now == clock
           pruned == Prune(request_times, now, time_window)
       IN  /\ request_times' = Append(pruned, now)
           /\ admitted' = Append(admitted, now)
    /\ request_lock' = NoThread
    /\ wpc' = [wpc EXCEPT ![t] = "idle"]
    /\ wdone' = wdone + 1
    /\ UNCHANGED auxVars
    /\ UNCHANGED <<clock, rate_limit, time_window, wwake, wcalls, wslept, retryVars, engVars>>

\* Time passes.  The clock runs on past MaxTime only while a sleeper waits for it.
TickRL ==
    /\ \/ clock < MaxTime
       \/ \E t \in Threads : wpc[t] = "sleeping" /\ wwake[t] > clock
    /\ clock' = clock + 1
    /\ UNCHANGED auxVars
    /\ UNCHANGED <<request_times, rate_limit, time_window, request_lock, wpc,
                   wwake, wcalls, wdone, wslept, admitted, retryVars, engVars>>

\* The whole of wait_if_needed for a single-threaded caller: the sleep of line 67
\* is the passing of sleep_time seconds plus `lag` (time.sleep never returns
\* early).  A record [times, now]: the new request_times and the clock on return.
wait_if_needed(times, now0, limit, w, lag) ==
    LET pruned == Prune(times, now0, w)
        sleeps == Len(pruned) >= limit /\ SleepTime(pruned, now0, w) > 0
        now1 == IF sleeps THEN now0 + SleepTime(pruned, now0, w) + lag ELSE now0
        again == IF sleeps THEN Prune(pruned, now1, w) ELSE pruned
    IN  [times |-> Append(again, now1), now |-> now1, slept |-> sleeps]

RetryIdle ==
    /\ rpc = "off"
    /\ retry_count = 0
    /\ max_retries = DefaultMaxRetries
    /\ max_backoff = DefaultMaxBackoff
    /\ rhist = <<>>
    /\ rsleeps = <<>>
    /\ rraised = NoError

\* The sync engine is not running.
EngineIdle ==
    /\ store = <<>> /\ nextId = 1 /\ epoch = 0 /\ cache = <<>> /\ prog = <<>>
    /\ calls = <<>> /\ flog = <<>> /\ pc = "off" /\ run = 0 /\ max_runs = 0
    /\ fail_budget = 0 /\ final_validation = FALSE
    /\ source_files = <<>> /\ source_folders = <<>>
    /\ dest_files = <<>> /\ dest_folders = <<>>
    /\ to_copy = <<>> /\ all_paths = <<>> /\ idx = 0 /\ success = TRUE
    /\ results = <<>> /\ ticks = 0 /\ dest_before = <<>> /\ copy_log = <<>>
    /\ val = <<>>
    /\ report = <<>>

\* The cache is not exercised on its own.
CacheIdle ==
    /\ cset = <<>> /\ cgot = <<>>

\* MigrationManager.__init__ line 56, when the configuration names no
\* max_retries
DefaultConfigMaxRetries == 3
ConfigDefault == cfg_max_retries = DefaultConfigMaxRetries

\* The two singleton classes.  RateLimiter() and APICache() have been
\* constructed, once each, before anything else runs.
Classes == {"RateLimiter", "APICache"}
SingletonsBuilt ==
    /\ instance = [c \in Classes |-> 1]
    /\ initialized = [c \in Classes |-> TRUE]
    /\ class_lock = [c \in Classes |-> NoThread]
    /\ kpc = [t \in Threads |-> [c \in Classes |-> "used"]]
    /\ state_inits = [c \in Classes |-> 1]
    /\ lock_inits = [c \in Classes |-> 1]
\* No thread is inside a @rate_limited function, nobody holds the cache lock.
NoStatement ==
    /\ wnow = [t \in Threads |-> 0]
    /\ wcur = [t \in Threads |-> 0]
    /\ wacc = [t \in Threads |-> <<>>]
    /\ cfg_window = <<>>
\* No call of a ProgressManager function has raised.
NoProgressError == prog_raised = NoError
NoGovernedCall ==
    /\ stack = [t \in Threads |-> <<>>]
    /\ cache_lock = NoThread
    /\ nested = 0

GovInit(limits, windows) ==
    /\ clock = 0
    /\ request_times = <<>>
    /\ rate_limit \in limits
    /\ time_window \in windows
    /\ request_lock = NoThread
    /\ wpc = [t \in Threads |-> "idle"]
    /\ wwake = [t \in Threads |-> 0]
    /\ wcalls = 0
    /\ wdone = 0
    /\ wslept = 0
    /\ admitted = <<>>

InitRL ==
    GovInit(1..MaxRate, 1..MaxWindow) /\ RetryIdle /\ EngineIdle /\ CacheIdle /\ ConfigDefault /\ SingletonsBuilt /\ NoGovernedCall /\ NoStatement /\ NoProgressError

NextRL ==
    \/ \E t \in Threads : WaitCall(t)
    \/ \E t \in Threads : WaitEnter(t)
    \/ \E t \in Threads : WaitWake(t)
    \/ TickRL

SpecRL == InitRL /\ [][NextRL]_vars
\* Time passes, time.sleep() returns, and the request lock is fair: a caller
\* blocked on it gets it after finitely many releases.
SpecRLFair ==
    /\ SpecRL
    /\ WF_vars(TickRL)
    /\ \A t \in Threads : WF_vars(WaitWake(t)) /\ SF_vars(WaitEnter(t))

\* C4 (rate bound): in every trailing window of time_window seconds ending at
\* any time up to now, at most rate_limit timestamps were admitted, and
\* request_times never holds more than rate_limit entries; a caller that has to
\* wait sleeps holding the request lock, and no call is rejected: every call
\* that returned appended its timestamp, every other call is still asleep.
AdmittedIn(T) ==
    Cardinality({i \in DOMAIN admitted :
                    admitted[i] <= T /\ T - admitted[i] < time_window})
Sleepers == {t \in Threads : wpc[t] = "sleeping"}
C4_RateBound ==
    /\ \A T \in 0..clock : AdmittedIn(T) <= rate_limit
    /\ Len(request_times) <= rate_limit
    /\ \A t \in Sleepers : request_lock = t
    /\ Len(admitted) = wdone
    /\ wcalls = wdone + Cardinality(Sleepers)
\* A caller found the window full, slept, and was admitted afterwards.
C4_Witness ==
    /\ wslept >= 1
    /\ Sleepers = {}
    /\ wdone > rate_limit
    /\ Len(request_times) = rate_limit

-----------------------------------------------------------------------------
\* RateLimiter.execute_with_retry

Statuses == {NoStatus, 400, 403, 404, 429, 500, 503}

\* Line 96: status in [403, 429, 500, 503]
IsRetriableAny(status) == status \in Statuses
IsRetriable(status) == status \in {403, 429, 500, 503}

\* Line 99
GiveUpLate(count, limit) == count > limit
GiveUp(count, limit) == count >= limit

\* Line 107
DelayUntruncated(count, cap) == base_delay * Pow2(count)
Delay(count, cap) == Min(base_delay * Pow2(count), cap)

\* Line 109: random.uniform(0, 1) is 0 + (1 - 0) * random.random(), a float of
\* [0, 1).  A jitter j stands for j / JitterDen seconds; the clock counts whole
\* seconds, and the sleep of line 117 is over at the next whole second.
JitterDen == 2
JittersClosed == 0..JitterDen
Jitters == 0..(JitterDen - 1)
SecondsUp(jitter) == IF jitter = 0 THEN 0 ELSE 1

\* One iteration of the while loop of lines 89-117: the admission, the call of
\* func, and on a retriable failure below the bound the backoff sleep.
RetryAttemptOf(lags, outcomes, jitters) ==
    /\ rpc = "loop"
    /\ \E lag \in lags, o \in outcomes, jitter \in jitters :
         LET adm == wait_if_needed(request_times, clock, rate_limit,
                                    time_window, lag)
             backoff == o # OK /\ IsRetriable(o) /\ ~GiveUp(retry_count, max_retries)
             delay == Delay(retry_count, max_backoff)
         IN  /\ adm.slept \/ lag = 0
             /\ backoff \/ jitter = 0
             /\ request_times' = adm.times
             /\ admitted' = Append(admitted, adm.now)
             /\ wcalls' = wcalls + 1
             /\ wdone' = wdone + 1
             /\ wslept' = wslept + (IF adm.slept THEN 1 ELSE 0)
             /\ rhist' = Append(rhist, o)
             /\ IF o = OK
                THEN /\ rpc' = "returned"
                     /\ clock' = adm.now
                     /\ UNCHANGED <<retry_count, rsleeps, rraised>>
                ELSE IF backoff
                THEN /\ retry_count' = retry_count + 1
                     /\ rsleeps' = Append(rsleeps, <<delay, jitter>>)
                     /\ clock' = adm.now + delay + SecondsUp(jitter)
                     /\ UNCHANGED <<rpc, rraised>>
                ELSE /\ rpc' = "raised"
                     /\ rraised' = <<o>>
                     /\ clock' = adm.now
                     /\ UNCHANGED <<retry_count, rsleeps>>
    /\ UNCHANGED auxVars
    /\ UNCHANGED <<rate_limit, time_window, request_lock, wpc, wwake,
                   max_retries, max_backoff, engVars>>
RetryAttempt == RetryAttemptOf({0, 1}, Statuses \cup {OK}, Jitters)

InitRetry ==
    /\ GovInit({1, DefaultRateLimit}, {2, DefaultTimeWindow})
    /\ rpc = "loop"
    /\ retry_count = 0
    /\ max_retries \in 0..MaxRetries
    /\ max_backoff \in {1, DefaultMaxBackoff}
    /\ rhist = <<>>
    /\ rsleeps = <<>>
    /\ rraised = NoError
    /\ EngineIdle
    /\ CacheIdle /\ ConfigDefault /\ SingletonsBuilt /\ NoGovernedCall /\ NoStatement /\ NoProgressError

NextRetry == RetryAttempt

SpecRetry == InitRetry /\ [][NextRetry]_vars
\* The caller's thread keeps running: a sleep ends, func returns or raises.
SpecRetryFair == SpecRetry /\ WF_vars(RetryAttempt)

AllRetriable == \A i \in DOMAIN rhist : rhist[i] # OK /\ IsRetriable(rhist[i])

\* C8 (backoff termination): while every invocation of func fails with a
\* retriable error, func is invoked at most max_retries + 1 times, the
\* (max_retries + 1)-th failure is re-raised to the caller, and no failure
\* before it is; and the loop always ends, by a return or a raise.
C8_Bounded ==
    /\ Len(rhist) <= max_retries + 1
    /\ AllRetriable =>
         /\ rpc = "raised" <=> Len(rhist) = max_retries + 1
         /\ rpc = "raised" => rraised = <<rhist[Len(rhist)]>>
         /\ Len(rsleeps) = IF rpc = "raised" THEN max_retries ELSE Len(rhist)
C8_BackoffTermination == []C8_Bounded /\ <>(rpc \in {"returned", "raised"})
\* func failed retriably max_retries + 1 times, with the largest bound, and the
\* error was raised.
C8_Witness ==
    /\ AllRetriable
    /\ max_retries = MaxRetries
    /\ Len(rhist) = max_retries + 1
    /\ rpc = "raised"

\* C10 (non-retriable errors): an invocation of func that raises an error with
\* no status, or a status outside {403, 429, 500, 503}, is the last one: the
\* error is raised to the caller, no backoff sleep follows it, and when it is
\* the first invocation there was exactly one invocation and no sleep at all.
NonRetriable(o) == o # OK /\ ~(o \in {403, 429, 500, 503})
C10_NonRetriablePropagates ==
    \A i \in DOMAIN rhist :
        NonRetriable(rhist[i]) =>
            /\ i = Len(rhist)
            /\ rpc = "raised"
            /\ rraised = <<rhist[i]>>
            /\ Len(rsleeps) = i - 1
\* The first invocation raised 404, or an exception without a status.
C10_Witness ==
    /\ Len(rhist) = 1
    /\ rhist[1] \in {NoStatus, 404}
    /\ rpc = "raised"
    /\ rsleeps = <<>>


-----------------------------------------------------------------------------
\* Values shared by the engine's components

\* Python's None and a present value
None == <<>>
Some(v) == <<v>>
IsNone(o) == Len(o) = 0
IsSome(o) == Len(o) = 1
Val(o) == o[1]

\* A Python dict, which keeps insertion order: a sequence of [k, v] with
\* distinct keys.  d[k] = v keeps the place of a key already present.
DictHas(d, k) == \E i \in DOMAIN d : d[i].k = k
DictGet(d, k) == d[CHOOSE i \in DOMAIN d : d[i].k = k].v
DictSet(d, k, v) ==
    IF DictHas(d, k)
    THEN [i \in DOMAIN d |-> IF d[i].k = k THEN [k |-> k, v |-> v] ELSE d[i]]
    ELSE Append(d, [k |-> k, v |-> v])
DictKeys(d) == [i \in DOMAIN d |-> d[i].k]
KeySet(d) == {d[i].k : i \in DOMAIN d}

\* A name or a path is a string: a sequence of characters.  "/" separates the
\* segments of a path.
Sep == "/"

\* f"{path}/{name}" if path else name (FolderManager.py line 175;
\* MigrationManager.py line 183)
Join(path, name) == IF Len(path) = 0 THEN name ELSE path \o <<Sep>> \o name

\* str.split('/')
RECURSIVE Split(_)
Split(str) ==
    IF \E i \in DOMAIN str : str[i] = Sep
    THEN LET i == CHOOSE j \in DOMAIN str :
                      str[j] = Sep /\ \A h \in 1..(j - 1) : str[h] # Sep
         IN  <<SubSeq(str, 1, i - 1)>> \o Split(SubSeq(str, i + 1, Len(str)))
    ELSE <<str>>

\* '/'.join(parts)
RECURSIVE JoinAll(_)
JoinAll(parts) ==
    IF Len(parts) = 0 THEN <<>>
    ELSE IF Len(parts) = 1 THEN parts[1]
    ELSE parts[1] \o <<Sep>> \o JoinAll(Tail(parts))

\* str.count('/')
Depth(str) == Cardinality({i \in DOMAIN str : str[i] = Sep})

\* sorted(paths, key=lambda p: p.count('/')): a stable sort
RECURSIVE InsertByDepth(_, _)
InsertByDepth(sorted, p) ==
    IF Len(sorted) = 0 THEN <<p>>
    ELSE IF Depth(sorted[Len(sorted)]) <= Depth(p) THEN Append(sorted, p)
    ELSE Append(InsertByDepth(SubSeq(sorted, 1, Len(sorted) - 1), p),
                sorted[Len(sorted)])
RECURSIVE SortByDepth(_)
SortByDepth(paths) ==
    IF Len(paths) = 0 THEN <<>>
    ELSE InsertByDepth(SortByDepth(SubSeq(paths, 1, Len(paths) - 1)),
                       paths[Len(paths)])

-----------------------------------------------------------------------------
\* The remote store (the Drive service).  A node is
\*   [id, parent, name, mimeType, size, md5Checksum, trashed]
\* with size and md5Checksum None when the service reports none (a native
\* document).  The order of the sequence is the order in which the service
\* lists the nodes.
FolderMime == "application/vnd.google-apps.folder"
DocMime == "application/vnd.google-apps.document"
BinMime == "application/octet-stream"
\* mimeType.startswith('application/vnd.google-apps.')
IsGoogleApps(mime) == mime \in {FolderMime, DocMime}

source_id == "S"      \* config['source']['folder_id']
dest_id == "D"        \* config['destination']['folder_id']

Node(id, parent, name, mime, size, md5, trashed) ==
    [id |-> id, parent |-> parent, name |-> name, mimeType |-> mime,
     size |-> size, md5Checksum |-> md5, trashed |-> trashed]

HasNode(st, id) == id \in {source_id, dest_id} \/ \E i \in DOMAIN st : st[i].id = id
NodeOf(st, id) == st[CHOOSE i \in DOMAIN st : st[i].id = id]

\* files().list(q="'<f_id>' in parents and trashed=false")
Children(st, f_id) ==
    SelectSeq(st, LAMBDA n : n.parent = f_id /\ ~n.trashed)
\* files().list(q="name = '<name>' and '<folder_id>' in parents")
NamedIn(st, folder_id, name) ==
    SelectSeq(st, LAMBDA n : n.parent = folder_id /\ n.name = name)
\* ... and mimeType = 'application/vnd.google-apps.folder'
FoldersNamedIn(st, parent_id, name) ==
    SelectSeq(st, LAMBDA n : n.parent = parent_id /\ n.name = name
                             /\ n.mimeType = FolderMime)

\* The ids the service gives to the nodes it creates
NewIds == <<"n1", "n2", "n3", "n4", "n5", "n6", "n7", "n8">>

\* A created node enters the listing order of the service at the front or at
\* the back: files().list is called without orderBy, the order is the service's.
InsertAdds(st, node, front) == IF front THEN <<node>> \o st ELSE Append(st, node)
InsertOverwrites(st, node, front) ==
    InsertAdds(SelectSeq(st, LAMBDA n : n.parent # node.parent), node, front)
InsertNode(st, node, front) == InsertAdds(st, node, front)

\* One page of a listing (pageSize, nextPageToken)
PageSize == 2
Page(items, p) ==
    SubSeq(items, (p - 1) * PageSize + 1, Min(p * PageSize, Len(items)))
HasNextPage(items, p) == p * PageSize < Len(items)

-----------------------------------------------------------------------------
\* APICache: one mapping from key to [value, timestamp].  A key is
\* <<operation, arguments>>, for the strings f'<operation>_<argument>_...'.
cache_duration == 1800      \* timedelta(minutes=30), in seconds

MapSet(m, k, v) == [x \in (DOMAIN m) \cup {k} |-> IF x = k THEN v ELSE m[x]]
MapDel(m, k) == [x \in (DOMAIN m) \ {k} |-> m[x]]

\* APICache.get: [value, cache]; an expired entry is deleted
Fresh(entry, now) == now - entry.timestamp < cache_duration
FreshAlways(entry, now) == TRUE
FreshNever(entry, now) == FALSE
FreshInclusive(entry, now) == now - entry.timestamp <= cache_duration
Unexpired(entry, now) == Fresh(entry, now)
cache_get(c, key, now) ==
    IF key \in DOMAIN c
    THEN IF Unexpired(c[key], now)
         THEN [value |-> Some(c[key].value), cache |-> c]
         ELSE [value |-> None, cache |-> MapDel(c, key)]
    ELSE [value |-> None, cache |-> c]
\* APICache.set
cache_set(c, key, value, now) ==
    MapSet(c, key, [value |-> value, timestamp |-> now])
\* APICache.remove
cache_remove(c, key) == IF key \in DOMAIN c THEN MapDel(c, key) ELSE c
\* APICache.clear
cache_clear(c) == [x \in {} |-> c[x]]


-----------------------------------------------------------------------------
\* The operations of the managers.  Each takes the state it may read or write
\* as a record w ("the world") and yields the world after it, its return value
\* in w.ret:
\*   store, nextId, epoch   the remote store, the next id of NewIds, and the
\*                          number of mutations of the store so far
\*   cache                  APICache._cache
\*   rt, now, limit, window RateLimiter.request_times, the clock, the limits
\*   prog                   ProgressManager.stats
\*   calls                  the remote calls issued, by kind, and the admissions
\*   k, failAt, failStatus  the remote calls issued by the current step, and the
\*                          one of them the service fails (0: none), with the
\*                          status of its HttpError
\*   flog                   history: the failed remote calls, each with the
\*                          phase (pc) it was issued in
\*   front                  where the service lists a node created by this step

\* @rate_limited: execute_with_retry admits the call (line 91), then runs it.
\* calls.credit counts the admissions that no remote call has used yet,
\* calls.unadmitted the remote calls issued when there was none left.
Admitted(w, a) ==
    [w EXCEPT !.rt = a.times, !.now = a.now, !.calls.admit = @ + 1,
              !.calls.credit = @ + 1]
Admit(w) ==
    Admitted(w, wait_if_needed(w.rt, w.now, w.limit, w.window, 0))

\* Every governed operation catches the HttpError of its remote calls itself
\* (FolderManager.py lines 54, 72, 102, 111, 137, 191, 220, 258; FileManager.py lines 33,
\* 59, 123), inside the function that @rate_limited wraps: no HttpError reaches
\* the except clause of execute_with_retry.
CaughtInside ==
    {"verify_folder_exists", "_count_items", "process_items",
     "find_folder_by_name", "create_folder", "get_file_details",
     "find_file_in_folder", "_copy_file", "get_folder_details",
     "get_folder_contents", "get_total_file_count"}
HandlerLetsEscape(op) == FALSE
HandlerCatches(op) == op \in CaughtInside

\* One remote call (a ...execute()) made by operation op.  It fails when it is
\* the failAt-th call of the step.  execute_with_retry attempts it again only
\* when the error reaches it, is retriable and the retries are not used up.
Remote(w, op, kind) ==
    LET k == w.k + 1
        fails == k = w.failAt
        retried == /\ fails
                   /\ ~HandlerCatches(op)
                   /\ IsRetriable(w.failStatus)
                   /\ ~GiveUp(0, DefaultMaxRetries)
    IN  [w EXCEPT !.k = k,
                  !.calls[kind] = @ + (IF retried THEN 2 ELSE 1),
                  !.calls.credit = IF @ > 0 THEN @ - 1 ELSE 0,
                  !.calls.unadmitted = @ + (IF w.calls.credit > 0 THEN 0 ELSE 1),
                  !.ok = ~fails \/ retried,
                  !.flog = IF fails
                           THEN Append(@, [op |-> op, kind |-> kind,
                                           status |-> w.failStatus,
                                           retried |-> retried, at |-> pc])
                           ELSE @]

\* ProgressManager.__init__ lines 15-25: every key of stats holds a counter but
\* 'start_time', which holds a datetime.
Counters ==
    {"total_files", "total_folders", "processed_files", "successful_copies",
     "failed_copies", "skipped_copies", "created_folders", "skipped_folders"}
Datetime(seconds) == [seconds |-> seconds]
TypeError == "TypeError"
\* update_progress without 'failed_copies' in the list of line 49
update_progressOfCopied(stats, operation_type) ==
    IF operation_type \in DOMAIN stats /\ operation_type \notin Counters
    THEN [stats |-> stats, raised |-> Some(TypeError)]
    ELSE LET p1 == IF operation_type \in DOMAIN stats
                   THEN [stats EXCEPT ![operation_type] = @ + 1]
                   ELSE stats
         IN  [stats |-> IF operation_type \in {"successful_copies",
                                               "skipped_copies"}
                        THEN [p1 EXCEPT !.processed_files = @ + 1]
                        ELSE p1,
              raised |-> None]
\* ProgressManager.update_progress: stats after the call, and the exception the
\* call raised.  Line 46 is `self.stats[operation_type] += 1` for every key of
\* stats: on 'start_time' it adds 1 to a datetime, which raises TypeError
\* before anything is assigned.  A string that is no key passes lines 45 and
\* 49 and changes nothing.
update_progress(stats, operation_type) ==
    IF operation_type \in DOMAIN stats /\ operation_type \notin Counters
    THEN [stats |-> stats, raised |-> Some(TypeError)]
    ELSE LET p1 == IF operation_type \in DOMAIN stats
                   THEN [stats EXCEPT ![operation_type] = @ + 1]
                   ELSE stats
         IN  [stats |-> IF operation_type \in {"successful_copies",
                                               "failed_copies",
                                               "skipped_copies"}
                        THEN [p1 EXCEPT !.processed_files = @ + 1]
                        ELSE p1,
              raised |-> None]
\* ProgressManager.increment_folder_count, increment_file_count and
\* set_total_counts
increment_folder_count(stats) == [stats EXCEPT !.total_folders = @ + 1]
increment_file_count(stats) == [stats EXCEPT !.total_files = @ + 1]
set_total_counts(stats, files, folders) ==
    [stats EXCEPT !.total_files = files, !.total_folders = folders]
\* update_progress as _copy_file and create_folder call it: with the name of a
\* counter (FileManager.py lines 103, 110, 120, 131, 135, FolderManager.py
\* lines 82, 98), on which it does not raise.
Progress(w, operation_type) ==
    [w EXCEPT !.prog = update_progress(@, operation_type).stats]

\* The service creates a node.
\* The place of the new node in the listing order is left open only among
\* nodes of its name in its folder, where the code depends on it (the last
\* listed wins a path of a snapshot, the first listed answers a lookup).
Create(w, parent, name, mime, size, md5) ==
    LET front == w.front /\ Len(NamedIn(w.store, parent, name)) > 0
    IN  [w EXCEPT !.store = InsertNode(@, Node(NewIds[w.nextId], parent, name,
                                               mime, size, md5, FALSE), front),
                  !.nextId = @ + 1,
                  !.epoch = @ + 1,
                  !.fronted = @ \/ front]

\* The fields a files().get / files().list answers with
Details(n) ==
    [id |-> n.id, name |-> n.name, mimeType |-> n.mimeType, size |-> n.size,
     md5Checksum |-> n.md5Checksum]

\* APICache.get at the head of an operation: the world after the lookup, with
\* the value found in w.ret (None when the key is absent or expired)
Lookup(w, key) ==
    [w EXCEPT !.cache = cache_get(w.cache, key, w.now).cache,
              !.ret = cache_get(w.cache, key, w.now).value]

\* FileManager.get_file_details
FileDetailsKey(file_id) == <<"file_details", <<file_id>>>>
\* lines 26-38, after files().get(...).execute()
get_file_details_fetched(w, file_id) ==
    IF w.ok /\ HasNode(w.store, file_id)
    THEN [w EXCEPT !.cache = cache_set(@, FileDetailsKey(file_id),
                                       Details(NodeOf(w.store, file_id)), w.now),
                   !.ret = Some(Details(NodeOf(w.store, file_id)))]
    ELSE [w EXCEPT !.ret = None]
\* lines 24-30, after the cache lookup
get_file_details_looked(w, file_id) ==
    IF IsSome(w.ret) THEN w
    ELSE get_file_details_fetched(Remote(w, "get_file_details", "get"), file_id)
get_file_details(w0, file_id) ==
    get_file_details_looked(Lookup(Admit(w0), FileDetailsKey(file_id)), file_id)

\* FileManager.find_file_in_folder
FileInFolderKey(folder_id, file_name) ==
    <<"file_in_folder", <<folder_id, file_name>>>>
\* lines 54-64, after files().list(...).execute(): files[0], if any
find_file_in_folder_listed(w, files, folder_id, file_name) ==
    IF w.ok /\ Len(files) > 0
    THEN [w EXCEPT !.cache = cache_set(@, FileInFolderKey(folder_id, file_name),
                                       Details(files[1]), w.now),
                   !.ret = Some(Details(files[1]))]
    ELSE [w EXCEPT !.ret = None]
\* lines 45-53, after the cache lookup
find_file_in_folder_looked(w, folder_id, file_name) ==
    IF IsSome(w.ret) THEN w
    ELSE find_file_in_folder_listed(Remote(w, "find_file_in_folder", "list"),
                                    NamedIn(w.store, folder_id, file_name),
                                    folder_id, file_name)
find_file_in_folder(w0, folder_id, file_name) ==
    find_file_in_folder_looked(
        Lookup(Admit(w0), FileInFolderKey(folder_id, file_name)),
        folder_id, file_name)

\* FileManager._files_match
MatchBySizeOnly(s, d) == s.size = d.size
MatchByHashOrType(s, d) ==
    \/ /\ IsSome(s.md5Checksum) /\ IsSome(d.md5Checksum)
       /\ s.md5Checksum = d.md5Checksum
       /\ s.size = d.size
    \/ /\ IsGoogleApps(s.mimeType) /\ IsGoogleApps(d.mimeType)
       /\ s.mimeType = d.mimeType
_files_match(s, d) == MatchByHashOrType(s, d)

\* FileManager._copy_file
\* lines 119-132, after files().copy(...).execute()
_copy_file_copied(w, source_file, dest_folder_id, file_name) ==
    IF w.ok
    THEN [Progress(Create(w, dest_folder_id, file_name, source_file.mimeType,
                          source_file.size, source_file.md5Checksum),
                   "successful_copies")
            EXCEPT !.ret = TRUE]
    ELSE [Progress(w, "failed_copies") EXCEPT !.ret = FALSE]
\* lines 108-117, w.ret being dest_file
_copy_file_found(w, source_file, dest_folder_id, file_name) ==
    IF IsSome(w.ret) /\ _files_match(source_file, Val(w.ret))
    THEN [Progress(w, "skipped_copies") EXCEPT !.ret = TRUE]
    ELSE _copy_file_copied(Remote(w, "_copy_file", "copy"), source_file,
                           dest_folder_id, file_name)
\* lines 101-107, w.ret being source_file
_copy_file_detailed(w, dest_folder_id, file_name) ==
    IF IsNone(w.ret)
    THEN [Progress(w, "failed_copies") EXCEPT !.ret = FALSE]
    ELSE _copy_file_found(find_file_in_folder(w, dest_folder_id, file_name),
                          Val(w.ret), dest_folder_id, file_name)
_copy_file(w0, file_id, dest_folder_id, file_name) ==
    _copy_file_detailed(get_file_details(Admit(w0), file_id),
                        dest_folder_id, file_name)

\* FolderManager.verify_folder_exists
verify_folder_exists_got(w, folder_id) ==
    [w EXCEPT !.ret = w.ok /\ HasNode(w.store, folder_id)]
verify_folder_exists(w0, folder_id) ==
    verify_folder_exists_got(Remote(Admit(w0), "verify_folder_exists", "get"),
                             folder_id)

\* FolderManager.find_folder_by_name
FolderByNameKey(parent_id, folder_name) ==
    <<"folder_by_name", <<parent_id, folder_name>>>>
\* lines 132-139, after files().list(...).execute(): files[0]['id'], if any
find_folder_by_name_listed(w, files, parent_id, folder_name) ==
    IF w.ok /\ Len(files) > 0
    THEN [w EXCEPT !.cache = cache_set(@, FolderByNameKey(parent_id, folder_name),
                                       files[1].id, w.now),
                   !.ret = Some(files[1].id)]
    ELSE [w EXCEPT !.ret = None]
\* lines 118-131, after the cache lookup
find_folder_by_name_looked(w, parent_id, folder_name) ==
    IF IsSome(w.ret) THEN w
    ELSE find_folder_by_name_listed(Remote(w, "find_folder_by_name", "list"),
                                    FoldersNamedIn(w.store, parent_id, folder_name),
                                    parent_id, folder_name)
find_folder_by_name(w0, parent_id, folder_name) ==
    find_folder_by_name_looked(
        Lookup(Admit(w0), FolderByNameKey(parent_id, folder_name)),
        parent_id, folder_name)

\* FolderManager.create_folder
\* lines 96-101, w.ret being the answer of verify_folder_exists
create_folder_verified(w, parent_id, new_id) ==
    IF w.ret
    THEN [Progress(w, "created_folders") EXCEPT
            !.cache = cache_remove(@, <<"folder_contents", <<parent_id>>>>),
            !.ret = Some(new_id)]
    ELSE [w EXCEPT !.ret = None]
\* lines 90-96 and 102-104, after files().create(...).execute()
create_folder_created(w, name, parent_id) ==
    IF ~w.ok
    THEN [w EXCEPT !.ret = None]
    ELSE create_folder_verified(
             verify_folder_exists(
                 Create(w, parent_id, name, FolderMime, None, None),
                 NewIds[w.nextId]),
             parent_id, NewIds[w.nextId])
\* lines 80-89, w.ret being existing_id
create_folder_looked(w, name, parent_id) ==
    IF IsSome(w.ret)
    THEN Progress(w, "skipped_folders")
    ELSE create_folder_created(Remote(w, "create_folder", "create"),
                               name, parent_id)
create_folder(w0, name, parent_id) ==
    create_folder_looked(find_folder_by_name(Admit(w0), parent_id, name),
                         name, parent_id)

\* FolderManager._count_items; w.ret is the count
RECURSIVE _count_items(_, _), _count_items_looked(_, _), count_page(_, _, _),
          count_page_listed(_, _, _), count_page_next(_, _, _),
          count_item(_, _, _), count_item_added(_, _, _, _)
ItemCountKey(folder_id) == <<"item_count", <<folder_id>>>>
\* lines 52-56: count_page left Some(total), or None when a call raised
_count_items_counted(w, folder_id) ==
    IF IsSome(w.ret)
    THEN [w EXCEPT !.cache = cache_set(@, ItemCountKey(folder_id), Val(w.ret),
                                       w.now),
                   !.ret = Val(w.ret)]
    ELSE [w EXCEPT !.ret = 0]
_count_items_looked(w, folder_id) ==
    IF IsSome(w.ret)
    THEN [w EXCEPT !.ret = Val(w.ret)]
    ELSE _count_items_counted(count_page([w EXCEPT !.ret = Some(0)], folder_id, 1),
                              folder_id)
_count_items(w0, folder_id) ==
    _count_items_looked(Lookup(Admit(w0), ItemCountKey(folder_id)), folder_id)
\* one turn of the while loop (lines 31-50)
count_page(w0, folder_id, p) ==
    count_page_listed(Remote(w0, "_count_items", "list"), folder_id, p)
count_page_listed(w, folder_id, p) ==
    IF ~w.ok
    THEN [w EXCEPT !.ret = None]
    ELSE count_page_next(
             count_item([w EXCEPT !.ret = Some(Val(w.ret)
                                   + Len(Page(Children(w.store, folder_id), p)))],
                        Page(Children(w.store, folder_id), p), 1),
             folder_id, p)
count_page_next(w, folder_id, p) ==
    IF HasNextPage(Children(w.store, folder_id), p)
    THEN count_page(w, folder_id, p + 1)
    ELSE w
\* the loop over the items of a page (lines 44-46)
count_item(w0, items, i) ==
    IF i > Len(items) THEN w0
    ELSE IF items[i].mimeType = FolderMime
    THEN count_item_added(_count_items(w0, items[i].id), Val(w0.ret), items, i)
    ELSE count_item(w0, items, i + 1)
count_item_added(c, total, items, i) ==
    count_item([c EXCEPT !.ret = Some(total + c.ret)], items, i + 1)

\* The entry of files_dict (FolderManager.py lines 181-185)
FileInfo(item) ==
    [id |-> item.id,
     size |-> IF IsSome(item.size) THEN Val(item.size) ELSE 0,
     checksum |-> item.md5Checksum]

\* FolderManager.collect_folder_contents.process_items: acc is
\* [w, files, folders, complete, failed]; complete and failed are history: no
\* listing call failed, and the folder and page of each listing that did.
RECURSIVE process_page(_, _, _, _), process_page_listed(_, _, _, _),
          process_page_next(_, _, _, _), process_item(_, _, _, _),
          process_one(_, _, _)
\* except HttpError (lines 191-193): what was recorded stays, the loop ends
ListingFailedDropsAll(acc, f_id, p) ==
    [acc EXCEPT !.complete = FALSE,
                !.failed = Append(@, [folder |-> f_id, page |-> p]),
                !.files = <<>>, !.folders = <<>>]
ListingFailed(acc, f_id, p) ==
    [acc EXCEPT !.complete = FALSE,
                !.failed = Append(@, [folder |-> f_id, page |-> p])]
\* one turn of the while loop (lines 157-193)
process_page(acc, f_id, path, p) ==
    process_page_listed([acc EXCEPT !.w = Remote(@, "process_items", "list")],
                        f_id, path, p)
process_page_listed(acc, f_id, path, p) ==
    IF ~acc.w.ok
    THEN ListingFailed(acc, f_id, p)
    ELSE process_page_next(
             process_item(acc, Page(Children(acc.w.store, f_id), p), 1, path),
             f_id, path, p)
process_page_next(acc, f_id, path, p) ==
    IF HasNextPage(Children(acc.w.store, f_id), p)
    THEN process_page(acc, f_id, path, p + 1)
    ELSE acc
\* the loop over the items of a page (lines 170-185)
process_item(acc, items, i, path) ==
    IF i > Len(items) THEN acc
    ELSE process_item(process_one(acc, items[i], Join(path, items[i].name)),
                      items, i + 1, path)
process_one(acc, item, current_path) ==
    IF item.mimeType = FolderMime
    THEN process_page([acc EXCEPT !.folders = DictSet(@, current_path, item.id),
                                  !.w.prog = increment_folder_count(@)],
                      item.id, current_path, 1)
    ELSE [acc EXCEPT !.files = DictSet(@, current_path, FileInfo(item))]

\* FolderManager.collect_folder_contents; w.ret is the snapshot
\* [files, folders], with the history fields epoch (the store's mutation count
\* when it was enumerated), complete and failed.
ContentsKey(folder_id) == <<"folder_contents_full", <<folder_id>>>>
Snapshot(acc) ==
    [files |-> acc.files, folders |-> acc.folders, epoch |-> acc.w.epoch,
     complete |-> acc.complete, failed |-> acc.failed]
\* lines 196-199
collect_folder_contents_done(acc, folder_id) ==
    [acc.w EXCEPT !.cache = cache_set(@, ContentsKey(folder_id), Snapshot(acc),
                                      acc.w.now),
                  !.ret = Snapshot(acc)]
\* lines 145-195, after the cache lookup
collect_folder_contents_looked(w, folder_id) ==
    IF IsSome(w.ret)
    THEN [w EXCEPT !.ret = Val(w.ret)]
    ELSE collect_folder_contents_done(
             process_page([w |-> _count_items(w, folder_id), files |-> <<>>,
                           folders |-> <<>>, complete |-> TRUE,
                           failed |-> <<>>],
                          folder_id, <<>>, 1),
             folder_id)
collect_folder_contents(w0, folder_id) ==
    collect_folder_contents_looked(Lookup(Admit(w0), ContentsKey(folder_id)),
                                   folder_id)

\* files().list(..., orderBy="name"): the order of the characters of the names
CharOrder == <<"/", "a", "b", "c", "f", "g", "x", "y">>
CharRank(c) == CHOOSE i \in DOMAIN CharOrder : CharOrder[i] = c
RECURSIVE NameBefore(_, _)
NameBefore(a, b) ==
    IF b = <<>> THEN FALSE
    ELSE IF a = <<>> THEN TRUE
    ELSE IF Head(a) # Head(b) THEN CharRank(Head(a)) < CharRank(Head(b))
    ELSE NameBefore(Tail(a), Tail(b))
RECURSIVE InsertByName(_, _)
InsertByName(sorted, n) ==
    IF sorted = <<>> THEN <<n>>
    ELSE IF NameBefore(n.name, Head(sorted).name) THEN <<n>> \o sorted
    ELSE <<Head(sorted)>> \o InsertByName(Tail(sorted), n)
RECURSIVE SortByName(_)
SortByName(nodes) ==
    IF nodes = <<>> THEN <<>>
    ELSE InsertByName(SortByName(SubSeq(nodes, 1, Len(nodes) - 1)),
                      nodes[Len(nodes)])

\* FolderManager.get_folder_details; w.ret is the details or None
FolderDetailsKey(folder_id) == <<"folder_details", <<folder_id>>>>
\* fields='id, name, mimeType, parents'; a root is named after its id
FolderDetails(st, folder_id) ==
    IF \E i \in DOMAIN st : st[i].id = folder_id
    THEN [id |-> folder_id, name |-> NodeOf(st, folder_id).name,
          mimeType |-> NodeOf(st, folder_id).mimeType,
          parents |-> <<NodeOf(st, folder_id).parent>>]
    ELSE [id |-> folder_id, name |-> <<folder_id>>, mimeType |-> FolderMime,
          parents |-> <<>>]
\* lines 65-74, after files().get(...).execute()
get_folder_details_fetched(w, folder_id) ==
    IF w.ok /\ HasNode(w.store, folder_id)
    THEN [w EXCEPT !.cache = cache_set(@, FolderDetailsKey(folder_id),
                                       FolderDetails(w.store, folder_id), w.now),
                   !.ret = Some(FolderDetails(w.store, folder_id))]
    ELSE [w EXCEPT !.ret = None]
\* lines 60-64, after the cache lookup
get_folder_details_looked(w, folder_id) ==
    IF IsSome(w.ret) THEN w
    ELSE get_folder_details_fetched(Remote(w, "get_folder_details", "get"),
                                    folder_id)
get_folder_details(w0, folder_id) ==
    get_folder_details_looked(Lookup(Admit(w0), FolderDetailsKey(folder_id)),
                              folder_id)

\* FolderManager.get_folder_contents; w.ret is the list of items
FolderContentsKey(folder_id) == <<"folder_contents", <<folder_id>>>>
\* fields="files(id, name, mimeType)"
Item(n) == [id |-> n.id, name |-> n.name, mimeType |-> n.mimeType]
Items(nodes) == [i \in DOMAIN nodes |-> Item(nodes[i])]
\* lines 208-222, after files().list(...).execute()
get_folder_contents_listed(w, contents, folder_id) ==
    IF w.ok
    THEN [w EXCEPT !.cache = cache_set(@, FolderContentsKey(folder_id), contents,
                                       w.now),
                   !.ret = contents]
    ELSE [w EXCEPT !.ret = <<>>]
\* lines 203-214, after the cache lookup: a cached empty list is not returned;
\* one files().list without pageSize, whose nextPageToken is not followed: the
\* first page of the listing by name
get_folder_contents_looked(w, folder_id) ==
    IF IsSome(w.ret) /\ Val(w.ret) # <<>>
    THEN [w EXCEPT !.ret = Val(w.ret)]
    ELSE get_folder_contents_listed(
             Remote(w, "get_folder_contents", "list"),
             Page(Items(SortByName(Children(w.store, folder_id))), 1),
             folder_id)
get_folder_contents(w0, folder_id) ==
    get_folder_contents_looked(Lookup(Admit(w0), FolderContentsKey(folder_id)),
                               folder_id)

\* FolderManager.print_folder_structure; out is the lines printed so far, each
\* [depth, folder, name], and w.ret the lines printed when it returns
RECURSIVE print_folder_structure(_, _, _, _),
          print_folder_structure_detailed(_, _, _, _),
          print_folder_structure_listed(_, _, _, _), print_item(_, _, _, _, _)
Line(depth, folder, name) == [depth |-> depth, folder |-> folder, name |-> name]
\* the loop of lines 271-275
print_item(w, items, i, depth, out) ==
    IF i > Len(items) THEN [w EXCEPT !.ret = out]
    ELSE IF items[i].mimeType = FolderMime
    THEN print_folder_structure_listed(
             print_folder_structure(w, items[i].id, depth + 1, out),
             items, i, depth)
    ELSE print_item(w, items, i + 1, depth,
                    Append(out, Line(depth + 1, FALSE, items[i].name)))
print_folder_structure_listed(w, items, i, depth) ==
    print_item(w, items, i + 1, depth, w.ret)
\* line 270, w.ret being items
print_folder_structure_got(w, depth, out) ==
    print_item(w, w.ret, 1, depth, out)
\* lines 265-269, w.ret being folder
print_folder_structure_detailed(w, folder_id, depth, out) ==
    IF IsNone(w.ret)
    THEN [w EXCEPT !.ret = out]
    ELSE print_folder_structure_got(
             get_folder_contents(w, folder_id), depth,
             Append(out, Line(depth, TRUE, Val(w.ret).name)))
print_folder_structure(w0, folder_id, depth, out) ==
    print_folder_structure_detailed(get_folder_details(w0, folder_id),
                                    folder_id, depth, out)

\* FolderManager.get_total_file_count; w.ret is the count
RECURSIVE get_total_file_count(_, _), get_total_file_count_looked(_, _),
          total_page(_, _, _), total_page_listed(_, _, _),
          total_page_next(_, _, _), total_item(_, _, _),
          total_item_added(_, _, _, _)
TotalFileCountKey(folder_id) == <<"total_file_count", <<folder_id>>>>
\* lines 256-260: total_page left Some(total_files), or None when a call raised
get_total_file_count_counted(w, folder_id) ==
    IF IsSome(w.ret)
    THEN [w EXCEPT !.cache = cache_set(@, TotalFileCountKey(folder_id),
                                       Val(w.ret), w.now),
                   !.ret = Val(w.ret)]
    ELSE [w EXCEPT !.ret = 0]
\* lines 226-232, after the cache lookup
get_total_file_count_looked(w, folder_id) ==
    IF IsSome(w.ret)
    THEN [w EXCEPT !.ret = Val(w.ret)]
    ELSE get_total_file_count_counted(
             total_page([w EXCEPT !.ret = Some(0)], folder_id, 1), folder_id)
get_total_file_count(w0, folder_id) ==
    get_total_file_count_looked(
        Lookup(Admit(w0), TotalFileCountKey(folder_id)), folder_id)
\* one turn of the while loop (lines 233-254)
total_page(w0, folder_id, p) ==
    total_page_listed(Remote(w0, "get_total_file_count", "list"), folder_id, p)
total_page_listed(w, folder_id, p) ==
    IF ~w.ok
    THEN [w EXCEPT !.ret = None]
    ELSE total_page_next(
             total_item(w, Page(Children(w.store, folder_id), p), 1),
             folder_id, p)
total_page_next(w, folder_id, p) ==
    IF HasNextPage(Children(w.store, folder_id), p)
    THEN total_page(w, folder_id, p + 1)
    ELSE w
\* the loop over the items of a page (lines 245-250)
total_item(w0, items, i) ==
    IF i > Len(items) THEN w0
    ELSE IF items[i].mimeType = FolderMime
    THEN total_item_added(get_total_file_count(w0, items[i].id), Val(w0.ret),
                          items, i)
    ELSE total_item([w0 EXCEPT !.ret = Some(Val(@) + 1)], items, i + 1)
total_item_added(c, total, items, i) ==
    total_item([c EXCEPT !.ret = Some(total + c.ret)], items, i + 1)

\* FileManager.copy_files; files is a list of [file_id, dest_folder_id,
\* file_name], w.ret the list of results
RECURSIVE copy_files_from(_, _, _, _), copy_files_copied(_, _, _, _)
\* lines 81-86, w.ret being success
copy_files_copied(w, files, i, done) ==
    copy_files_from(
        IF w.ret
        THEN [w EXCEPT !.cache = cache_remove(@,
                  FileInFolderKey(files[i].dest_folder_id, files[i].file_name))]
        ELSE w,
        files, i + 1, Append(done, w.ret))
\* the loop of lines 75-94
copy_files_from(w, files, i, done) ==
    IF i > Len(files) THEN [w EXCEPT !.ret = done]
    ELSE copy_files_copied(
             _copy_file(w, files[i].file_id, files[i].dest_folder_id,
                        files[i].file_name),
             files, i, done)
copy_files(w0, files) == copy_files_from(w0, files, 1, <<>>)

\* ValidationManager.get_missing_files_list; w.ret is the list of paths
MissingFilesKey(s_id, d_id) == <<"missing_files", <<s_id, d_id>>>>
\* lines 180-182, w.ret being the destination snapshot
get_missing_files_list_dst(w, s_files, s_id, d_id) ==
    [w EXCEPT !.cache = cache_set(@, MissingFilesKey(s_id, d_id),
                            SelectSeq(DictKeys(s_files),
                                      LAMBDA path : ~DictHas(w.ret.files, path)),
                            w.now),
              !.ret = SelectSeq(DictKeys(s_files),
                                LAMBDA path : ~DictHas(w.ret.files, path))]
\* lines 176-178, w.ret being the source snapshot
get_missing_files_list_src(w, s_id, d_id) ==
    get_missing_files_list_dst(collect_folder_contents(w, d_id), w.ret.files,
                               s_id, d_id)
\* lines 169-175, after the cache lookup
get_missing_files_list_looked(w, s_id, d_id) ==
    IF IsSome(w.ret)
    THEN [w EXCEPT !.ret = Val(w.ret)]
    ELSE get_missing_files_list_src(collect_folder_contents(w, s_id), s_id, d_id)
get_missing_files_list(w0, s_id, d_id) ==
    get_missing_files_list_looked(Lookup(w0, MissingFilesKey(s_id, d_id)),
                                  s_id, d_id)

\* ValidationManager.validate_file_transfer; w.ret is its success flag
ValidationKey(s_id, d_id) == <<"validation", <<s_id, d_id>>>>
\* lines 43-65 on the two answers of get_file_details
validate_file_transfer_result(source_file, dest_file) ==
    /\ IsSome(source_file) /\ IsSome(dest_file)
    /\ Val(source_file).size = Val(dest_file).size
    /\ ~ /\ IsSome(Val(source_file).md5Checksum)
         /\ IsSome(Val(dest_file).md5Checksum)
         /\ Val(source_file).md5Checksum # Val(dest_file).md5Checksum
\* w.ret being dest_file
validate_file_transfer_got(w, source_file, s_id, d_id) ==
    [w EXCEPT !.cache = cache_set(@, ValidationKey(s_id, d_id),
                                  validate_file_transfer_result(source_file, w.ret),
                                  w.now),
              !.ret = validate_file_transfer_result(source_file, w.ret)]
\* w.ret being source_file
validate_file_transfer_src(w, s_id, d_id) ==
    validate_file_transfer_got(get_file_details(w, d_id), w.ret, s_id, d_id)
validate_file_transfer_looked(w, s_id, d_id) ==
    IF IsSome(w.ret)
    THEN [w EXCEPT !.ret = Val(w.ret)]
    ELSE validate_file_transfer_src(get_file_details(w, s_id), s_id, d_id)
validate_file_transfer(w0, s_id, d_id) ==
    validate_file_transfer_looked(Lookup(Admit(w0), ValidationKey(s_id, d_id)),
                                  s_id, d_id)

\* The loop of ValidationManager.validate_migration over the source paths
\* (lines 107-128); w.ret counts the errors
RECURSIVE validate_paths(_, _, _, _), validate_paths_checked(_, _, _, _, _)
validate_paths(w0, s_files, d_files, i) ==
    IF i > Len(s_files) THEN w0
    ELSE IF ~DictHas(d_files, s_files[i].k)
    THEN validate_paths([w0 EXCEPT !.ret = @ + 1], s_files, d_files, i + 1)
    ELSE IF s_files[i].v.size # DictGet(d_files, s_files[i].k).size
    THEN validate_paths([w0 EXCEPT !.ret = @ + 1], s_files, d_files, i + 1)
    ELSE validate_paths_checked(
             validate_file_transfer(w0, s_files[i].v.id,
                                    DictGet(d_files, s_files[i].k).id),
             w0.ret, s_files, d_files, i)
\* lines 126-128, w.ret being the answer of validate_file_transfer
validate_paths_checked(w, errors, s_files, d_files, i) ==
    validate_paths([w EXCEPT !.ret = errors + (IF w.ret THEN 0 ELSE 1)],
                   s_files, d_files, i + 1)

\* ValidationManager.validate_migration; w.ret is [passed, cached, errors,
\* dest]: its return value and, as history, whether it came from the cache,
\* the number of discrepancies found, and the destination snapshot compared
\* against (None when the result came from the cache)
MigrationValidationKey(s_id, d_id) == <<"migration_validation", <<s_id, d_id>>>>
\* lines 130-156, w.ret being the number of errors of the loop
validate_migration_done(w, src, dst, s_id, d_id) ==
    LET errors == w.ret + Cardinality(KeySet(src.folders) \ KeySet(dst.folders))
    IN  [w EXCEPT !.cache = cache_set(@, MigrationValidationKey(s_id, d_id),
                                      errors = 0, w.now),
                  !.ret = [passed |-> errors = 0, cached |-> FALSE,
                           errors |-> errors, dest |-> Some(dst)]]
\* lines 101-128, w.ret being the destination snapshot
validate_migration_dst(w, src, s_id, d_id) ==
    validate_migration_done(
        validate_paths([w EXCEPT !.ret = 0], src.files, w.ret.files, 1),
        src, w.ret, s_id, d_id)
\* lines 96-99, w.ret being the source snapshot
validate_migration_src(w, s_id, d_id) ==
    validate_migration_dst(collect_folder_contents(w, d_id), w.ret, s_id, d_id)
\* lines 86-94, after the cache lookup
validate_migration_looked(w, s_id, d_id) ==
    IF IsSome(w.ret)
    THEN [w EXCEPT !.ret = [passed |-> Val(w.ret), cached |-> TRUE,
                            errors |-> 0, dest |-> None]]
    ELSE validate_migration_src(collect_folder_contents(w, s_id), s_id, d_id)
validate_migration(w0, s_id, d_id) ==
    validate_migration_looked(Lookup(w0, MigrationValidationKey(s_id, d_id)),
                              s_id, d_id)


-----------------------------------------------------------------------------
\* ComparisonManager (migrate.py --compare).  Of the report, the sums of
\* sizes, the file types, the depth statistics and the timing are left out.

\* _generate_comparison_report, the loop of lines 63-81
RECURSIVE report_missing_files(_, _, _), report_size_mismatches(_, _, _),
          report_checksum_mismatches(_, _, _)
report_missing_files(s_files, d_files, i) ==
    IF i > Len(s_files) THEN <<>>
    ELSE (IF ~DictHas(d_files, s_files[i].k)
          THEN <<[path |-> s_files[i].k, size |-> s_files[i].v.size]>>
          ELSE <<>>)
         \o report_missing_files(s_files, d_files, i + 1)
report_size_mismatches(s_files, d_files, i) ==
    IF i > Len(s_files) THEN <<>>
    ELSE (IF /\ DictHas(d_files, s_files[i].k)
             /\ DictGet(d_files, s_files[i].k).size # s_files[i].v.size
          THEN <<[path |-> s_files[i].k, source_size |-> s_files[i].v.size,
                  dest_size |-> DictGet(d_files, s_files[i].k).size]>>
          ELSE <<>>)
         \o report_size_mismatches(s_files, d_files, i + 1)
report_checksum_mismatches(s_files, d_files, i) ==
    IF i > Len(s_files) THEN <<>>
    ELSE (IF /\ DictHas(d_files, s_files[i].k)
             /\ DictGet(d_files, s_files[i].k).size = s_files[i].v.size
             /\ IsSome(s_files[i].v.checksum)
             /\ IsSome(DictGet(d_files, s_files[i].k).checksum)
             /\ s_files[i].v.checksum # DictGet(d_files, s_files[i].k).checksum
          THEN <<s_files[i].k>>
          ELSE <<>>)
         \o report_checksum_mismatches(s_files, d_files, i + 1)
\* lines 98-104
Discrepancies(s_files, s_folders, d_files, d_folders) ==
    [missing_files |-> report_missing_files(s_files, d_files, 1),
     size_mismatches |-> report_size_mismatches(s_files, d_files, 1),
     checksum_mismatches |-> report_checksum_mismatches(s_files, d_files, 1),
     missing_folders |-> KeySet(s_folders) \ KeySet(d_folders),
     extra_folders |-> KeySet(d_folders) \ KeySet(s_folders)]
\* _generate_file_details and _generate_folder_details
_generate_file_details(s_files, d_files) ==
    [matching_files |->
         {s_files[i].k : i \in {j \in DOMAIN s_files :
             /\ DictHas(d_files, s_files[j].k)
             /\ DictGet(d_files, s_files[j].k).size = s_files[j].v.size}},
     different_files |->
         {s_files[i].k : i \in {j \in DOMAIN s_files :
             /\ DictHas(d_files, s_files[j].k)
             /\ DictGet(d_files, s_files[j].k).size # s_files[j].v.size}},
     missing_files |->
         {s_files[i].k : i \in {j \in DOMAIN s_files :
             ~DictHas(d_files, s_files[j].k)}}]
_generate_folder_details(s_folders, d_folders) ==
    [matching_folders |-> KeySet(s_folders) \cap KeySet(d_folders),
     missing_folders |-> KeySet(s_folders) \ KeySet(d_folders),
     extra_folders |-> KeySet(d_folders) \ KeySet(s_folders)]
\* lines 105-107: the quotient num / den, a float in the code
CompletionUnguarded(s_files, d_files) ==
    [num |-> Len(d_files) * 100, den |-> Len(s_files)]
completion_percentage(s_files, d_files) ==
    IF Len(s_files) # 0
    THEN [num |-> Len(d_files) * 100, den |-> Len(s_files)]
    ELSE [num |-> 100, den |-> 1]
\* ComparisonManager._generate_comparison_report
_generate_comparison_report(s_files, s_folders, d_files, d_folders, detailed) ==
    [source_stats |-> [total_files |-> Len(s_files),
                       total_folders |-> Len(s_folders)],
     dest_stats |-> [total_files |-> Len(d_files),
                     total_folders |-> Len(d_folders)],
     discrepancies |-> Discrepancies(s_files, s_folders, d_files, d_folders),
     completion_percentage |-> completion_percentage(s_files, d_files),
     file_details |-> IF detailed
                      THEN Some(_generate_file_details(s_files, d_files))
                      ELSE None,
     folder_details |-> IF detailed
                        THEN Some(_generate_folder_details(s_folders, d_folders))
                        ELSE None]
\* ComparisonManager.compare_folders; w.ret is the report
\* lines 27-34, w.ret being the destination snapshot
compare_folders_dst(w, src, detailed) ==
    [w EXCEPT !.ret = _generate_comparison_report(src.files, src.folders,
                                                  w.ret.files, w.ret.folders,
                                                  detailed)]
\* lines 24-27, w.ret being the source snapshot
compare_folders_src(w, d_id, detailed) ==
    compare_folders_dst(collect_folder_contents(w, d_id), w.ret, detailed)
compare_folders(w0, s_id, d_id, detailed) ==
    compare_folders_src(collect_folder_contents(w0, s_id), d_id, detailed)

-----------------------------------------------------------------------------
\* The sync engine: MigrationManager.execute_sync_migration, step by step.

MaxFailures == 1      \* remote calls the service fails in one behaviour
MaxStepCalls == 12    \* the failing call is among the first MaxStepCalls of a step
MaxTicks == 1         \* how often the cache lifetime passes between two steps
FailStatuses == {503, 404}

\* MigrationManager.__init__ lines 38-39: the limits the engine configures
\* when the configuration names none
user_rate_limit == 12000
user_time_window == 60

ZeroProgress ==
    [total_files |-> 0, total_folders |-> 0, processed_files |-> 0,
     successful_copies |-> 0, failed_copies |-> 0, skipped_copies |-> 0,
     created_folders |-> 0, skipped_folders |-> 0,
     start_time |-> Datetime(0)]
ZeroCalls ==
    [list |-> 0, get |-> 0, create |-> 0, copy |-> 0, admit |-> 0,
     credit |-> 0, unadmitted |-> 0]

World(failAt, failStatus, front) ==
    [store |-> store, nextId |-> nextId, epoch |-> epoch, cache |-> cache,
     rt |-> request_times, now |-> clock, limit |-> rate_limit,
     window |-> time_window, prog |-> prog, calls |-> calls, k |-> 0,
     failAt |-> failAt, failStatus |-> failStatus, flog |-> flog,
     front |-> front, fronted |-> FALSE, ok |-> TRUE, ret |-> None]

\* The step's world becomes the state.
Commit(w) ==
    /\ store' = w.store
    /\ nextId' = w.nextId
    /\ epoch' = w.epoch
    /\ cache' = w.cache
    /\ request_times' = w.rt
    /\ clock' = w.now
    /\ prog' = w.prog
    /\ calls' = w.calls
    /\ flog' = w.flog
    /\ fail_budget' = fail_budget - (IF w.failAt > 0 THEN 1 ELSE 0)
    /\ UNCHANGED <<cset, cgot, cfg_max_retries, prog_raised, singVars, nestVars, stmtVars>>
    /\ UNCHANGED <<rate_limit, time_window, request_lock, wpc, wwake, wcalls,
                   wdone, wslept, admitted, retryVars, max_runs,
                   final_validation, run, ticks, dest_before>>

\* What the service does in a step: which remote call it fails, if any, and
\* with which status.  A choice counts only if the step issues that call.
FailPoints == 0..(IF fail_budget > 0 THEN MaxStepCalls ELSE 0)
Happens(w) == w.failAt <= w.k

\* The run ends with return value r.
Return(r) ==
    /\ pc' = "done"
    /\ results' = Append(results, r)

\* Lines 70-72 and run_preliminary_tests (lines 209-225)
PreflightProceeds(w) ==
    /\ Happens(w)
    /\ Commit(w)
    /\ pc' = "enum_src" /\ UNCHANGED results
PreflightTested(w) ==
    /\ Happens(w)
    /\ Commit(w)
    /\ IF w.ret
       THEN pc' = "enum_src" /\ UNCHANGED results
       ELSE Return(FALSE)
PreflightSecond(w) ==
    IF w.ret THEN verify_folder_exists(w, dest_id) ELSE w
Preflight ==
    /\ pc = "preflight"
    /\ \E failAt \in FailPoints, failStatus \in FailStatuses :
         PreflightTested(
             PreflightSecond(
                 verify_folder_exists(Admit(World(failAt, failStatus, FALSE)),
                                      source_id)))
    /\ UNCHANGED report
    /\ UNCHANGED <<source_files, source_folders, dest_files, dest_folders,
                   to_copy, all_paths, idx, success, copy_log, val>>

\* Lines 77-80
EnumeratedSource(w) ==
    /\ Happens(w)
    /\ Commit(w)
    /\ source_files' = w.ret.files
    /\ source_folders' = w.ret.folders
EnumerateSource ==
    /\ pc = "enum_src"
    /\ \E failAt \in FailPoints, failStatus \in FailStatuses :
         EnumeratedSource(
             collect_folder_contents(World(failAt, failStatus, FALSE), source_id))
    /\ pc' = "enum_dst"
    /\ UNCHANGED report
    /\ UNCHANGED <<dest_files, dest_folders, to_copy, all_paths, idx, success,
                   results, copy_log, val>>

\* Lines 82-88, with ProgressManager.set_total_counts
EnumeratedDest(w) ==
    /\ Happens(w)
    /\ Commit([w EXCEPT !.prog = set_total_counts(@, Len(source_files),
                                                   Len(source_folders))])
    /\ dest_files' = w.ret.files
    /\ dest_folders' = w.ret.folders
EnumerateDest ==
    /\ pc = "enum_dst"
    /\ \E failAt \in FailPoints, failStatus \in FailStatuses :
         EnumeratedDest(
             collect_folder_contents(World(failAt, failStatus, FALSE), dest_id))
    /\ pc' = "diff"
    /\ UNCHANGED report
    /\ UNCHANGED <<source_files, source_folders, to_copy, all_paths, idx,
                   success, results, copy_log, val>>

\* The condition of lines 93-101 under which a source path is planned
SizeOrHashDiffers(s_info, d_info) ==
    \/ s_info.size # d_info.size
    \/ /\ IsSome(s_info.checksum) /\ IsSome(d_info.checksum)
       /\ s_info.checksum # d_info.checksum
HashDiffersOnly(s_info, d_info) ==
    /\ IsSome(s_info.checksum) /\ IsSome(d_info.checksum)
    /\ s_info.checksum # d_info.checksum
Differs(s_info, d_info) == SizeOrHashDiffers(s_info, d_info)

\* The diff step, lines 90-102: the plan, in the order of source_files
RECURSIVE Diff(_, _, _)
Diff(s_files, d_files, i) ==
    IF i > Len(s_files) THEN <<>>
    ELSE LET path == s_files[i].k
             s_info == s_files[i].v
             planned == \/ ~DictHas(d_files, path)
                        \/ Differs(s_info, DictGet(d_files, path))
         IN  (IF planned THEN <<<<s_info.id, path>>>> ELSE <<>>)
             \o Diff(s_files, d_files, i + 1)

\* Lines 90-104 and the sort of _create_subfolders (line 133)
DiffStep ==
    /\ pc = "diff"
    /\ to_copy' = Diff(source_files, dest_files, 1)
    /\ all_paths' = SortByDepth(DictKeys(source_folders))
    /\ idx' = 1
    /\ pc' = "folders"
    /\ UNCHANGED auxVars
    /\ UNCHANGED <<govVars, retryVars, store, nextId, epoch, cache, prog, calls,
                   flog, run, max_runs, fail_budget, final_validation,
                   source_files, source_folders, dest_files, dest_folders,
                   success, results, ticks, dest_before, copy_log, val>>

\* dest_folders is the very dict held by the cached destination snapshot
\* (collect_folder_contents caches and returns the same tuple): a change of
\* dest_folders is a change of the cached snapshot.
Aliased(c, folders) ==
    IF ContentsKey(dest_id) \in DOMAIN c
    THEN [c EXCEPT ![ContentsKey(dest_id)].value.folders = folders]
    ELSE c

\* '/'.join(path.split('/')[:-1]) and path.split('/')[-1]
ParentPath(path) ==
    LET parts == Split(path) IN JoinAll(SubSeq(parts, 1, Len(parts) - 1))
LastName(path) == LET parts == Split(path) IN parts[Len(parts)]

\* One turn of the loop of _create_subfolders (lines 135-157)
SubfolderSkipped(path) ==
    \/ DictHas(dest_folders, path)
    \/ /\ Len(ParentPath(path)) > 0
       /\ ~DictHas(dest_folders, ParentPath(path))
SubfolderParent(path) ==
    IF Len(ParentPath(path)) = 0 THEN dest_id
    ELSE DictGet(dest_folders, ParentPath(path))
\* lines 153-157, w.ret being new_id; folders is dest_folders after the turn
SubfolderDone(w, folders, front) ==
    /\ Happens(w)
    /\ front => w.fronted
    /\ Commit([w EXCEPT !.cache = Aliased(@, folders)])
    /\ dest_folders' = folders
SubfolderCreated(w, path, front) ==
    SubfolderDone(w, IF IsSome(w.ret)
                     THEN DictSet(dest_folders, path, Val(w.ret))
                     ELSE dest_folders,
                  front)
CreateSubfolder ==
    /\ pc = "folders"
    /\ idx <= Len(all_paths)
    /\ \E failAt \in FailPoints, failStatus \in FailStatuses, front \in BOOLEAN :
         IF SubfolderSkipped(all_paths[idx])
         THEN SubfolderDone(World(failAt, failStatus, front), dest_folders, front)
         ELSE SubfolderCreated(
                  create_folder(World(failAt, failStatus, front),
                                LastName(all_paths[idx]),
                                SubfolderParent(all_paths[idx])),
                  all_paths[idx], front)
    /\ idx' = idx + 1
    /\ UNCHANGED report
    /\ UNCHANGED <<pc, source_files, source_folders, dest_files, to_copy,
                   all_paths, success, results, copy_log, val>>

\* _create_subfolders has returned; _copy_missing_files begins (lines 171-172)
BeginCopy ==
    /\ pc = "folders"
    /\ idx > Len(all_paths)
    /\ pc' = "copy"
    /\ idx' = 1
    /\ success' = TRUE
    /\ UNCHANGED auxVars
    /\ UNCHANGED <<govVars, retryVars, store, nextId, epoch, cache, prog, calls,
                   flog, run, max_runs, fail_budget, final_validation,
                   source_files, source_folders, dest_files, dest_folders,
                   to_copy, all_paths, results, ticks, dest_before, copy_log, val>>

\* The loop of lines 182-198 over the folder segments of a planned path:
\* st is [w, dest_folders, current_parent, prefix_path, success].  When a
\* missing folder cannot be created, `continue` goes on with the next segment
\* and current_parent stays what it was.
RECURSIVE walk_subfolders(_, _, _), walk_subfolders_created(_, _, _, _, _)
walk_subfolders(st, folders, i) ==
    IF i > Len(folders) THEN st
    ELSE IF DictHas(st.dest_folders, Join(st.prefix_path, folders[i]))
    THEN walk_subfolders(
             [st EXCEPT !.prefix_path = Join(@, folders[i]),
                        !.current_parent =
                            DictGet(st.dest_folders,
                                    Join(st.prefix_path, folders[i]))],
             folders, i + 1)
    ELSE walk_subfolders_created(
             st, create_folder(st.w, folders[i], st.current_parent),
             Join(st.prefix_path, folders[i]), folders, i)
\* lines 192-198, w.ret being new_id
walk_subfolders_created(st, w, prefix_path, folders, i) ==
    IF IsSome(w.ret)
    THEN walk_subfolders(
             [st EXCEPT !.w = w,
                        !.prefix_path = prefix_path,
                        !.dest_folders = DictSet(@, prefix_path, Val(w.ret)),
                        !.current_parent = Val(w.ret)],
             folders, i + 1)
    ELSE walk_subfolders(
             [st EXCEPT !.w = w,
                        !.prefix_path = prefix_path,
                        !.success = FALSE],
             folders, i + 1)

\* What a failed item does to success (lines 203-205)
KeepsSuccess(ok, copy_ok) == ok
ClearsSuccess(ok, copy_ok) == ok /\ copy_ok
AfterCopy(ok, copy_ok) == ClearsSuccess(ok, copy_ok)

\* The for loop of line 174 ends when the plan is used up, whatever happened
\* to the items before.
StopsAtFailure(i, plan, ok) == i > Len(plan) \/ ~ok
CopyPassOver(i, plan, ok) == i > Len(plan)

\* One turn of the loop of _copy_missing_files (lines 174-205)
\* lines 203-205, w.ret being copy_ok; st is what walk_subfolders left
CopyFileDone(w, st, src_id, path, front) ==
    /\ Happens(w)
    /\ front => w.fronted
    /\ Commit([w EXCEPT !.cache = Aliased(@, st.dest_folders)])
    /\ dest_folders' = st.dest_folders
    /\ success' = AfterCopy(st.success, w.ret)
    /\ copy_log' = Append(copy_log,
                          [path |-> path, src_id |-> src_id, copy_ok |-> w.ret,
                           parent |-> st.current_parent,
                           copied |-> w.calls.copy > calls.copy])
\* line 202
CopyFileWalked(st, src_id, path, front) ==
    CopyFileDone(_copy_file(st.w, src_id, st.current_parent,
                            Split(path)[Len(Split(path))]),
                 st, src_id, path, front)
CopyFile ==
    /\ pc = "copy"
    /\ ~CopyPassOver(idx, to_copy, success)
    /\ \E failAt \in FailPoints, failStatus \in FailStatuses, front \in BOOLEAN :
         CopyFileWalked(
             walk_subfolders([w |-> World(failAt, failStatus, front),
                              dest_folders |-> dest_folders,
                              current_parent |-> dest_id,
                              prefix_path |-> <<>>,
                              success |-> success],
                             SubSeq(Split(to_copy[idx][2]), 1,
                                    Len(Split(to_copy[idx][2])) - 1),
                             1),
             to_copy[idx][1], to_copy[idx][2], front)
    /\ idx' = idx + 1
    /\ UNCHANGED report
    /\ UNCHANGED <<pc, source_files, source_folders, dest_files, to_copy,
                   all_paths, results, val>>

\* Lines 111-125 when the copy pass has ended and no validation follows
EndCopy ==
    /\ pc = "copy"
    /\ CopyPassOver(idx, to_copy, success)
    /\ IF ~success THEN Return(FALSE)
       ELSE IF final_validation THEN pc' = "validate" /\ UNCHANGED results
       ELSE Return(TRUE)
    /\ UNCHANGED auxVars
    /\ UNCHANGED <<govVars, retryVars, store, nextId, epoch, cache, prog, calls,
                   flog, run, max_runs, fail_budget, final_validation,
                   source_files, source_folders, dest_files, dest_folders,
                   to_copy, all_paths, idx, success, ticks, dest_before,
                   copy_log, val>>

\* Lines 116-125
ValidatedAndRepaired(w) ==
    /\ Happens(w)
    /\ Commit(Create(Remote(w, "create_folder", "create"), dest_id, <<"x">>,
                     FolderMime, None, None))
    /\ val' = Some(w.ret)
    /\ Return(w.ret.passed)
Validated(w) ==
    /\ Happens(w)
    /\ Commit(w)
    /\ val' = Some(w.ret)
    /\ Return(w.ret.passed)
Validate ==
    /\ pc = "validate"
    /\ \E failAt \in FailPoints, failStatus \in FailStatuses :
         Validated(validate_migration(World(failAt, failStatus, FALSE),
                                      source_id, dest_id))
    /\ UNCHANGED report
    /\ UNCHANGED <<source_files, source_folders, dest_files, dest_folders,
                   to_copy, all_paths, idx, success, copy_log>>

\* migrate.py --compare (lines 157-167): instead of migrating, the process
\* compares the two trees, prints the report and exits.  The FolderManager of
\* the ComparisonManager counts progress in a ProgressManager of its own.
Compared(w) ==
    /\ Happens(w)
    /\ Commit([w EXCEPT !.prog = prog])
    /\ report' = Some(w.ret)
Compare ==
    /\ pc = "preflight"
    /\ \E failAt \in FailPoints, failStatus \in FailStatuses,
          detailed \in BOOLEAN :
         Compared(compare_folders(World(failAt, failStatus, FALSE),
                                  source_id, dest_id, detailed))
    /\ pc' = "compared"
    /\ UNCHANGED <<source_files, source_folders, dest_files, dest_folders,
                   to_copy, all_paths, idx, success, results, copy_log, val>>

\* migrate.py --print-structure (lines 147-155): instead of migrating, the
\* process prints the source tree, then the destination tree, and exits.
\* report becomes the lines printed.
PrintedStructure(w) ==
    /\ Happens(w)
    /\ Commit(w)
    /\ report' = Some(w.ret)
PrintedSource(w) == print_folder_structure(w, dest_id, 0, w.ret)
PrintStructure ==
    /\ pc = "preflight"
    /\ \E failAt \in FailPoints, failStatus \in FailStatuses :
         PrintedStructure(PrintedSource(
             print_folder_structure(World(failAt, failStatus, FALSE),
                                    source_id, 0, <<>>)))
    /\ pc' = "printed"
    /\ UNCHANGED <<source_files, source_folders, dest_files, dest_folders,
                   to_copy, all_paths, idx, success, results, copy_log, val>>

\* The cache lifetime passes: after the enumerations, or after the copy pass.
Tick ==
    /\ \/ pc = "folders" /\ idx = 1
       \/ pc = "validate"
    /\ ticks < MaxTicks
    /\ ticks' = ticks + 1
    /\ clock' = clock + cache_duration
    /\ UNCHANGED auxVars
    /\ UNCHANGED <<request_times, rate_limit, time_window, request_lock, wpc,
                   wwake, wcalls, wdone, wslept, admitted, retryVars, store,
                   nextId, epoch, cache, prog, calls, flog, pc, run, max_runs,
                   fail_budget, final_validation, source_files, source_folders,
                   dest_files, dest_folders, to_copy, all_paths, idx, success,
                   results, dest_before, copy_log, val>>

\* migrate.py is run again: a new process, whose singletons start empty
\* (APICache.__init__, RateLimiter.__init__, ProgressManager.__init__), against
\* the remote store as the last run left it.
NewProcess ==
    /\ pc = "done"
    /\ run < max_runs
    /\ run' = run + 1
    /\ pc' = "preflight"
    /\ cache' = <<>>
    /\ request_times' = <<>>
    /\ prog' = [ZeroProgress EXCEPT !.start_time = Datetime(clock)]
    /\ calls' = ZeroCalls
    /\ source_files' = <<>> /\ source_folders' = <<>>
    /\ dest_files' = <<>> /\ dest_folders' = <<>>
    /\ to_copy' = <<>> /\ all_paths' = <<>> /\ idx' = 0 /\ success' = TRUE
    /\ copy_log' = <<>> /\ val' = None
    /\ dest_before' = store
    /\ UNCHANGED auxVars
    /\ UNCHANGED <<clock, rate_limit, time_window, request_lock, wpc, wwake,
                   wcalls, wdone, wslept, admitted, retryVars, store, nextId,
                   epoch, flog, max_runs, fail_budget, final_validation,
                   results, ticks>>

-----------------------------------------------------------------------------
\* The trees the engine is run on

NA == <<"a">>
NF == <<"f">>
NG == <<"g">>
NB == <<"b">>
NC == <<"c">>

\* A source file: a binary file with a size and a checksum, or a native
\* document, for which the service reports neither
SrcFile(id, parent, name, kind) ==
    IF kind = "doc"
    THEN Node(id, parent, name, DocMime, None, None, FALSE)
    ELSE Node(id, parent, name, BinMime, Some(2), Some("H1"), FALSE)

\* A destination file of the same name: the same content, another size (with
\* or without a checksum), another content of the same size, or the same
\* content in the trash
DstFile(id, parent, name, kind, variant) ==
    IF kind = "doc"
    THEN Node(id, parent, name, DocMime, None, None, variant = "trashed")
    ELSE IF variant = "size"
    THEN Node(id, parent, name, BinMime, Some(1), Some("H2"), FALSE)
    ELSE IF variant = "sizeonly"
    THEN Node(id, parent, name, BinMime, Some(1), None, FALSE)
    ELSE IF variant = "hash"
    THEN Node(id, parent, name, BinMime, Some(2), Some("H2"), FALSE)
    ELSE Node(id, parent, name, BinMime, Some(2), Some("H1"), variant = "trashed")

Opt(present, node) == IF present THEN <<node>> ELSE <<>>

SourceTree(hasA, hasF, hasAF, kind) ==
    Opt(hasA, Node("s1", source_id, NA, FolderMime, None, None, FALSE))
    \o Opt(hasF, SrcFile("s2", source_id, NF, kind))
    \o Opt(hasA /\ hasAF, SrcFile("s3", "s1", NF, kind))

DestTree(hasA, f, af, hasG, kind) ==
    Opt(hasA, Node("d1", dest_id, NA, FolderMime, None, None, FALSE))
    \o Opt(f # "absent", DstFile("d2", dest_id, NF, kind, f))
    \o Opt(hasA /\ af # "absent", DstFile("d3", "d1", NF, kind, af))
    \o Opt(hasG, Node("d4", dest_id, NG, BinMime, Some(1), Some("H3"), FALSE))

Trees ==
    {SourceTree(sa, sf, saf, kind) \o DestTree(da, f, af, g, kind) :
        sa \in BOOLEAN, sf \in BOOLEAN, saf \in BOOLEAN, da \in BOOLEAN,
        g \in BOOLEAN, kind \in {"bin", "doc"},
        f \in {"absent", "same", "size", "sizeonly", "hash", "trashed"},
        af \in {"absent", "same"}}

\* A name the service accepts: it holds the character that joins paths.
NXY == <<"x", Sep, "y">>

\* Trees of folders: the source holds folder a, and may hold a/b, c, the file
\* a/b/f, the file g and a file named x/y, listed in that order (with c, g is
\* on the second page of the root); the destination may hold a and a/b.
DeepSource(hasB, hasC, hasF, hasG, hasXY) ==
    <<Node("s1", source_id, NA, FolderMime, None, None, FALSE)>>
    \o Opt(hasB, Node("s4", "s1", NB, FolderMime, None, None, FALSE))
    \o Opt(hasC, Node("s5", source_id, NC, FolderMime, None, None, FALSE))
    \o Opt(hasB /\ hasF, SrcFile("s6", "s4", NF, "bin"))
    \o Opt(hasG, SrcFile("s7", source_id, NG, "bin"))
    \o Opt(hasXY, SrcFile("s8", source_id, NXY, "bin"))
DeepDest(hasA, hasB) ==
    Opt(hasA, Node("d1", dest_id, NA, FolderMime, None, None, FALSE))
    \o Opt(hasA /\ hasB, Node("d5", "d1", NB, FolderMime, None, None, FALSE))
DeepTrees ==
    {DeepSource(sb, sc, sf, sg, sxy) \o DeepDest(da, db) :
        sb \in BOOLEAN, sc \in BOOLEAN, sf \in BOOLEAN, sg \in BOOLEAN,
        sxy \in BOOLEAN, da \in BOOLEAN, db \in BOOLEAN}

EngineInitOn(trees, runs, budget) ==
    /\ GovInit({user_rate_limit}, {user_time_window})
    /\ RetryIdle
    /\ store \in trees
    /\ nextId = 1
    /\ epoch = 0
    /\ cache = <<>>
    /\ prog = ZeroProgress
    /\ calls = ZeroCalls
    /\ flog = <<>>
    /\ pc = "preflight"
    /\ run = 1
    /\ max_runs = runs
    /\ fail_budget = budget
    /\ final_validation \in BOOLEAN
    /\ source_files = <<>> /\ source_folders = <<>>
    /\ dest_files = <<>> /\ dest_folders = <<>>
    /\ to_copy = <<>> /\ all_paths = <<>> /\ idx = 0 /\ success = TRUE
    /\ results = <<>>
    /\ ticks = 0
    /\ dest_before = store
    /\ copy_log = <<>>
    /\ val = None
    /\ report = None
    /\ CacheIdle /\ ConfigDefault /\ SingletonsBuilt /\ NoGovernedCall /\ NoStatement /\ NoProgressError

EngineInit(runs, budget) == EngineInitOn(Trees, runs, budget)

Init == EngineInit(1, MaxFailures)

Next ==
    \/ Preflight
    \/ EnumerateSource
    \/ EnumerateDest
    \/ DiffStep
    \/ CreateSubfolder
    \/ BeginCopy
    \/ CopyFile
    \/ EndCopy
    \/ Validate
    \/ Compare
    \/ PrintStructure
    \/ Tick

\* One run of migrate.py, in which the service may fail remote calls
Spec == Init /\ [][Next]_vars

\* migrate.py run twice in succession, every remote call succeeding
InitTwice == EngineInit(2, 0)
NextTwice ==
    \/ Next
    \/ NewProcess
SpecTwice == InitTwice /\ [][NextTwice]_vars

\* One run of migrate.py over trees of nested folders, in which the service
\* may fail remote calls
InitDeep == EngineInitOn(DeepTrees, 1, MaxFailures)
SpecDeep == InitDeep /\ [][Next]_vars

-----------------------------------------------------------------------------
\* APICache on its own: set, get, remove and clear called in any order while
\* time passes.

MaxCacheTicks == 3     \* how often time is let pass in SpecCache
CacheKeys == {ItemCountKey(source_id), ItemCountKey(dest_id)}
CacheValues == {0, 1}
\* Time passes by a second, or by a second less than cache_duration.
CacheSteps == {1, cache_duration - 1}

CacheFrame ==
    UNCHANGED <<request_times, rate_limit, time_window, request_lock, wpc,
                wwake, wcalls, wdone, wslept, admitted, retryVars, store,
                nextId, epoch, prog, calls, flog, pc, run, max_runs,
                fail_budget, final_validation, source_files, source_folders,
                dest_files, dest_folders, to_copy, all_paths, idx, success,
                results, dest_before, copy_log, val, report,
                cfg_max_retries, prog_raised, singVars, nestVars, stmtVars>>

CacheSet ==
    /\ pc = "cache"
    /\ \E key \in CacheKeys, value \in CacheValues :
          /\ cache' = cache_set(cache, key, value, clock)
          /\ cset' = [cset EXCEPT ![key] = Some([value |-> value, time |-> clock])]
    /\ UNCHANGED <<clock, ticks, cgot>>
    /\ CacheFrame

CacheGet ==
    /\ pc = "cache"
    /\ \E key \in CacheKeys :
          /\ cache' = cache_get(cache, key, clock).cache
          /\ cgot' = Some([key |-> key, now |-> clock,
                           value |-> cache_get(cache, key, clock).value,
                           latest |-> cset[key], before |-> cache,
                           after |-> cache_get(cache, key, clock).cache])
    /\ UNCHANGED <<clock, ticks, cset>>
    /\ CacheFrame

CacheRemove ==
    /\ pc = "cache"
    /\ \E key \in CacheKeys :
          /\ cache' = cache_remove(cache, key)
          /\ cset' = [cset EXCEPT ![key] = None]
    /\ UNCHANGED <<clock, ticks, cgot>>
    /\ CacheFrame

CacheClear ==
    /\ pc = "cache"
    /\ cache' = cache_clear(cache)
    /\ cset' = [key \in CacheKeys |-> None]
    /\ UNCHANGED <<clock, ticks, cgot>>
    /\ CacheFrame

CacheTick ==
    /\ pc = "cache"
    /\ ticks < MaxCacheTicks
    /\ ticks' = ticks + 1
    /\ \E d \in CacheSteps : clock' = clock + d
    /\ UNCHANGED <<cache, cset, cgot>>
    /\ CacheFrame

InitCache ==
    /\ GovInit({DefaultRateLimit}, {DefaultTimeWindow})
    /\ RetryIdle
    /\ store = <<>> /\ nextId = 1 /\ epoch = 0 /\ cache = <<>> /\ prog = <<>>
    /\ calls = <<>> /\ flog = <<>> /\ pc = "cache" /\ run = 0 /\ max_runs = 0
    /\ fail_budget = 0 /\ final_validation = FALSE
    /\ source_files = <<>> /\ source_folders = <<>>
    /\ dest_files = <<>> /\ dest_folders = <<>>
    /\ to_copy = <<>> /\ all_paths = <<>> /\ idx = 0 /\ success = TRUE
    /\ results = <<>> /\ ticks = 0 /\ dest_before = <<>> /\ copy_log = <<>>
    /\ val = <<>> /\ report = <<>>
    /\ cset = [key \in CacheKeys |-> None]
    /\ cgot = None
    /\ ConfigDefault /\ SingletonsBuilt /\ NoGovernedCall /\ NoStatement /\ NoProgressError
NextCache ==
    \/ CacheSet
    \/ CacheGet
    \/ CacheRemove
    \/ CacheClear
    \/ CacheTick
SpecCache == InitCache /\ [][NextCache]_vars


-----------------------------------------------------------------------------
\* Claims about the sync engine

\* A fresh enumeration of a tree of store st in which every listing succeeds
PureWorld(st) ==
    [store |-> st, k |-> 0, failAt |-> 0, failStatus |-> 503,
     calls |-> ZeroCalls, flog |-> <<>>, ok |-> TRUE, prog |-> ZeroProgress]
Enumerate(st, root) ==
    process_page([w |-> PureWorld(st), files |-> <<>>, folders |-> <<>>,
                  complete |-> TRUE, failed |-> <<>>], root, <<>>, 1)

Finished == pc = "done" /\ Len(results) = run
Returned(r) == Finished /\ results[run] = r

\* C1 (completeness), as claimed: whenever a run returns True, a fresh
\* enumeration of the destination maps every path of the source snapshot to a
\* file of the same size and, when both checksums are known, the same checksum.
MatchesIn(files, p, s_info) ==
    /\ DictHas(files, p)
    /\ DictGet(files, p).size = s_info.size
    /\ (IsSome(s_info.checksum) /\ IsSome(DictGet(files, p).checksum))
          => DictGet(files, p).checksum = s_info.checksum
C1_Completeness ==
    Returned(TRUE) =>
        \A i \in DOMAIN source_files :
            MatchesIn(Enumerate(store, dest_id).files,
                      source_files[i].k, source_files[i].v)

\* C2 (idempotence), as claimed: the second of two runs in succession, each a
\* new process, with every remote call succeeding, issues no copyFile and no
\* createFolder call and returns True.
C2_Idempotence ==
    (run = 2 /\ Finished /\ flog = <<>>) =>
        /\ calls.copy = 0
        /\ calls.create = 0
        /\ results[2] = TRUE

\* C3 (non-destructiveness): every node the destination held when the run
\* began is still in the store, unchanged (nothing is deleted, moved, renamed
\* or overwritten: the store only grows), so every file path of the
\* destination that is not a source path is still a file path of it.
SourcePaths == KeySet(Enumerate(store, source_id).files)
C3_NonDestructive ==
    /\ \A i \in DOMAIN dest_before : \E j \in DOMAIN store : store[j] = dest_before[i]
    /\ Len(store) >= Len(dest_before)
    /\ \A q \in KeySet(Enumerate(dest_before, dest_id).files) \ SourcePaths :
           q \in KeySet(Enumerate(store, dest_id).files)
\* A run that copied a file and created a folder has ended, on a destination
\* that held a file the source does not have.
C3_Witness ==
    /\ Finished
    /\ calls.copy >= 1
    /\ calls.create >= 1
    /\ NG \in KeySet(Enumerate(dest_before, dest_id).files)

\* C5 (success means no failure): a run returns True only if every planned
\* item was attempted and none of the attempts failed, and, when final
\* validation is enabled, validate_migration ran and found no discrepancy.
C5_SuccessOnlyIfAllCopied ==
    Returned(TRUE) =>
        /\ Len(copy_log) = Len(to_copy)
        /\ \A i \in DOMAIN copy_log : copy_log[i].copy_ok
        /\ prog.failed_copies = 0
        /\ final_validation =>
              /\ IsSome(val)
              /\ Val(val).passed
              /\ ~Val(val).cached
              /\ Val(val).errors = 0
\* A run with final validation copied a file and returned True.
C5_Witness ==
    /\ Returned(TRUE)
    /\ final_validation
    /\ prog.successful_copies >= 1

\* C6 (diff correctness): the plan holds <<source file id, path>> exactly for
\* the paths of source_files that are absent from dest_files, or whose sizes
\* differ, or whose checksums are both known and differ; each path once.
NeedsCopy(p) ==
    \/ ~DictHas(dest_files, p)
    \/ DictGet(source_files, p).size # DictGet(dest_files, p).size
    \/ /\ DictGet(source_files, p).checksum # None
       /\ DictGet(dest_files, p).checksum # None
       /\ DictGet(source_files, p).checksum # DictGet(dest_files, p).checksum
Planned == pc \in {"folders", "copy", "validate"} \/ (pc = "done" /\ val # None)
C6_DiffCorrect ==
    Planned =>
        /\ {to_copy[i] : i \in DOMAIN to_copy}
             = {<<DictGet(source_files, p).id, p>> :
                   p \in {q \in KeySet(source_files) : NeedsCopy(q)}}
        /\ \A i, j \in DOMAIN to_copy : to_copy[i][2] = to_copy[j][2] => i = j
\* A path is planned because the sizes differ while the destination's checksum
\* is unknown, beside a path that is not planned.
C6_Witness ==
    /\ pc = "folders"
    /\ \E i \in DOMAIN to_copy :
          /\ DictHas(dest_files, to_copy[i][2])
          /\ DictGet(dest_files, to_copy[i][2]).checksum = None
    /\ Len(to_copy) < Len(source_files)

\* C7 (validation sees the copies), as claimed: when no remote call failed, the
\* destination snapshot that final validation compares against is the
\* destination as it is after the copy pass: it holds the files copied and the
\* folders created during the run.
C7_ValidationSeesCopies ==
    (Finished /\ IsSome(val) /\ flog = <<>>) =>
        /\ IsSome(Val(val).dest)
        /\ Val(Val(val).dest).files = Enumerate(store, dest_id).files
        /\ KeySet(Val(Val(val).dest).folders)
              = KeySet(Enumerate(store, dest_id).folders)

\* C9 (retry of governed calls), as claimed: a remote call that fails with a
\* retriable status is attempted again, so a copyFile that fails once with 503
\* does not make its item a failed copy.
C9_RetriableRetried ==
    /\ \A i \in DOMAIN flog : IsRetriable(flog[i].status) => flog[i].retried
    /\ \A i \in DOMAIN flog :
          (flog[i].kind = "copy" /\ flog[i].status = 503) => prog.failed_copies = 0


\* C11 (every remote call admitted), as claimed: every remote call of a run
\* (each page of a listing, each metadata get, each create, each copy) is
\* preceded by an admission of its own through wait_if_needed: no remote call
\* is issued when every earlier admission has been used by an earlier call.
C11_EveryCallAdmitted ==
    calls.unadmitted = 0

\* C12 (cache expiry): a get returns the value of the key's latest set when no
\* remove or clear followed that set and less than cache_duration has passed
\* since it, and returns absent otherwise; a get that finds an entry of age
\* cache_duration or more returns absent and deletes that entry; no get
\* touches the entry of another key or adds one.
C12_CacheExpiry ==
    IsSome(cgot) =>
        LET g == Val(cgot)
            live == /\ IsSome(g.latest)
                    /\ g.now - Val(g.latest).time < 30 * 60
        IN  /\ live => g.value = Some(Val(g.latest).value)
            /\ ~live => g.value = None
            /\ (/\ g.key \in DOMAIN g.before
                /\ g.now - g.before[g.key].timestamp >= 30 * 60)
                  => g.value = None /\ g.key \notin DOMAIN g.after
            /\ \A key \in CacheKeys \ {g.key} :
                  /\ key \in DOMAIN g.after <=> key \in DOMAIN g.before
                  /\ key \in DOMAIN g.before => g.after[key] = g.before[key]
\* A get at the very second its entry expires deleted it and left the live
\* entry of the other key alone.
C12_Witness ==
    /\ IsSome(cgot)
    /\ Val(cgot).key \in DOMAIN Val(cgot).before
    /\ Val(cgot).now - Val(cgot).before[Val(cgot).key].timestamp = 30 * 60
    /\ Val(cgot).value = None
    /\ DOMAIN Val(cgot).after = CacheKeys \ {Val(cgot).key}


\* C13 (preflight): when the get of either root fails, the run has returned
\* False, neither tree was enumerated (no listing was issued, the snapshots
\* are empty) and no folder was created and no file copied.
PreflightFailed ==
    \E i \in DOMAIN flog :
        flog[i].op = "verify_folder_exists" /\ flog[i].at = "preflight"
C13_PreflightStops ==
    PreflightFailed =>
        /\ Returned(FALSE)
        /\ calls.list = 0 /\ calls.create = 0 /\ calls.copy = 0
        /\ source_files = <<>> /\ source_folders = <<>>
        /\ dest_files = <<>> /\ dest_folders = <<>>
        /\ store = dest_before
\* The source root was verified, the destination root could not be, and the
\* run has returned False.
C13_Witness ==
    /\ PreflightFailed
    /\ calls.get = 2
    /\ flog[1].status = 404
    /\ Returned(FALSE)


\* C14 (copy failure isolation): the copy pass calls _copy_file once for every
\* item of the plan, in the order of the plan, whether or not an earlier item
\* failed; each item counts once in the progress statistics, and the failed
\* copies counted are exactly the items whose _copy_file returned False.
FailedItems == {i \in DOMAIN copy_log : ~copy_log[i].copy_ok}
C14_CopyFailureIsolated ==
    /\ pc = "copy" => Len(copy_log) = idx - 1
    /\ pc \in {"validate", "done"} => Len(copy_log) = Len(to_copy)
    /\ Len(copy_log) <= Len(to_copy)
    /\ \A i \in DOMAIN copy_log :
          /\ copy_log[i].src_id = to_copy[i][1]
          /\ copy_log[i].path = to_copy[i][2]
    /\ pc \in {"copy", "validate", "done"} =>
          /\ prog.failed_copies = Cardinality(FailedItems)
          /\ prog.processed_files = Len(copy_log)
\* The first item of a plan of two failed, the second was attempted and
\* copied, and the pass is over.
C14_Witness ==
    /\ pc = "done"
    /\ Len(to_copy) = 2
    /\ Len(copy_log) = 2
    /\ ~copy_log[1].copy_ok
    /\ copy_log[2].copy_ok /\ copy_log[2].copied
    /\ prog.failed_copies = 1


\* C15 (folder creation order): every turn of the folder-creation pass takes a
\* path at least as deep as the paths taken before; it issues a create only
\* when the parent of the path is the destination root or a key of the
\* destination folder mapping, and the folder it creates has the mapped id as
\* parent; the id of a folder the service created in the turn is in the
\* mapping under the path when the turn is over, so before a deeper path is
\* taken; a path whose parent is no key of the mapping issues no remote call
\* and the pass goes on to the next path.
CreatedNodes(before, after) ==
    {after[i] : i \in {j \in DOMAIN after : ~HasNode(before, after[j].id)}}
ParentIsKnown(folders, p) ==
    Len(ParentPath(p)) = 0 \/ DictHas(folders, ParentPath(p))
ParentId(folders, p) ==
    IF Len(ParentPath(p)) = 0 THEN "D" ELSE DictGet(folders, ParentPath(p))
C15_FolderTurn ==
    (pc = "folders" /\ idx' = idx + 1) =>
        /\ \A i \in 1..(idx - 1) : Depth(all_paths[i]) <= Depth(all_paths[idx])
        /\ calls'.create > calls.create =>
              /\ ParentIsKnown(dest_folders, all_paths[idx])
              /\ \A n \in CreatedNodes(store, store') :
                    /\ n.parent = ParentId(dest_folders, all_paths[idx])
                    /\ n.name = LastName(all_paths[idx])
                    /\ n.mimeType = FolderMime
        /\ CreatedNodes(store, store') # {} =>
              /\ DictHas(dest_folders', all_paths[idx])
              /\ \A n \in CreatedNodes(store, store') :
                    DictGet(dest_folders', all_paths[idx]) = n.id
        /\ ~ParentIsKnown(dest_folders, all_paths[idx]) =>
              /\ calls' = calls /\ store' = store
              /\ dest_folders' = dest_folders
              /\ pc' = "folders"
C15_FolderCreationOrder == [][C15_FolderTurn]_vars

\* The phases of a run in their order, and the steps between them that a run
\* takes: to the next phase, or to the end from preflight, from the copy pass
\* and from validation.
PhaseOrder ==
    <<"preflight", "enum_src", "enum_dst", "diff", "folders", "copy",
      "validate", "done">>
PhaseIndex(phase) == CHOOSE i \in DOMAIN PhaseOrder : PhaseOrder[i] = phase
C16_PhaseSteps ==
    [][(pc' # pc /\ pc' \notin {"compared", "printed"}) =>
          \/ PhaseIndex(pc') = PhaseIndex(pc) + 1
          \/ pc' = "done" /\ pc \in {"preflight", "copy", "validate"}]_vars
\* No create before both enumerations are over, no copy before the
\* folder-creation pass is over, validation only after a copy pass without a
\* failed item and only when final_validation is set.
C16_CallsInPhase ==
    /\ calls.create > 0 => PhaseIndex(pc) >= PhaseIndex("folders")
    /\ calls.copy > 0 => PhaseIndex(pc) >= PhaseIndex("copy")
    /\ (pc = "validate" \/ IsSome(val)) =>
          /\ final_validation
          /\ success
          /\ Len(copy_log) = Len(to_copy)
          /\ \A i \in DOMAIN copy_log : copy_log[i].copy_ok
\* A listing of the enumeration of a tree failed.
EnumerationFailed ==
    \E i \in DOMAIN flog :
        flog[i].op = "process_items" /\ flog[i].at \in {"enum_src", "enum_dst"}
\* C16 (phase ordering), as claimed: creates, copies and validation are issued
\* in their phases only, and once a phase has failed the run returns False
\* without executing a later phase: after a failed listing of an enumeration
\* no folder is created, no file copied, nothing validated, and the run does
\* not return True.
C16_PhaseOrdering ==
    /\ C16_CallsInPhase
    /\ EnumerationFailed =>
          /\ calls.create = 0 /\ calls.copy = 0 /\ IsNone(val)
          /\ Finished => Returned(FALSE)


\* The path of node n below root, from its chain of parents.
RECURSIVE PathBelow(_, _, _)
PathBelow(st, n, root) ==
    IF n.parent = root THEN n.name
    ELSE Join(PathBelow(st, NodeOf(st, n.parent), root), n.name)
\* The nodes below root
RECURSIVE IsBelow(_, _, _)
IsBelow(st, n, root) ==
    \/ n.parent = root
    \/ /\ n.parent \notin {"S", "D"}
       /\ HasNode(st, n.parent)
       /\ IsBelow(st, NodeOf(st, n.parent), root)
\* Node n is listed by its folder on page fl.page or on a later page.
OnPageFrom(st, n, fl) ==
    /\ n.parent = fl.folder
    /\ \E i \in DOMAIN Children(st, fl.folder) :
          /\ Children(st, fl.folder)[i] = n
          /\ i > (fl.page - 1) * PageSize
\* Node n, or a folder above it, was to be listed by a listing that failed.
RECURSIVE CutOff(_, _, _)
CutOff(st, n, failed) ==
    \/ \E i \in DOMAIN failed : OnPageFrom(st, n, failed[i])
    \/ /\ n.parent \notin {"S", "D"}
       /\ CutOff(st, NodeOf(st, n.parent), failed)
Kept(st, root, failed) ==
    {st[i] : i \in {j \in DOMAIN st : /\ ~st[j].trashed
                                       /\ IsBelow(st, st[j], root)
                                       /\ ~CutOff(st, st[j], failed)}}
\* The snapshot of root holds the nodes of Kept and nothing else.
SnapshotIs(snap, st, root) ==
    /\ KeySet(snap.folders) =
          {PathBelow(st, n, root) :
              n \in {m \in Kept(st, root, snap.failed) : m.mimeType = FolderMime}}
    /\ KeySet(snap.files) =
          {PathBelow(st, n, root) :
              n \in {m \in Kept(st, root, snap.failed) : m.mimeType # FolderMime}}
    /\ \A n \in Kept(st, root, snap.failed) :
          IF n.mimeType = FolderMime
          THEN DictGet(snap.folders, PathBelow(st, n, root)) = n.id
          ELSE DictGet(snap.files, PathBelow(st, n, root)).id = n.id
\* C17 (enumeration failure policy): when listings failed during an
\* enumeration, collect_folder_contents still returns a snapshot, and (as long
\* as the run has written nothing into it) it holds
\* exactly the items of the tree that are neither on the failed page of a
\* folder or a later page of it, nor below such an item: what was recorded
\* before the error is kept, and every folder outside the failed one is
\* enumerated in full.
C17_EnumerationFailurePolicy ==
    \A root \in {"S", "D"} :
        (ContentsKey(root) \in DOMAIN cache /\ pc \in {"enum_dst", "diff"}) =>
            SnapshotIs(cache[ContentsKey(root)].value, store, root)
\* The listing of folder a failed: the snapshot of the source holds a, c and
\* g and nothing below a, and the run has gone on.
C17_Witness ==
    /\ pc = "enum_dst"
    /\ ContentsKey("S") \in DOMAIN cache
    /\ cache[ContentsKey("S")].value.failed = <<[folder |-> "s1", page |-> 1]>>
    /\ HasNode(store, "s4")
    /\ KeySet(source_folders) = {NA, NC}
    /\ KeySet(source_files) = {NG}
\* The second page of the source root failed: g is missing, everything on
\* the first page and below it is in the snapshot.
C17_PageWitness ==
    /\ pc = "enum_dst"
    /\ ContentsKey("S") \in DOMAIN cache
    /\ cache[ContentsKey("S")].value.failed = <<[folder |-> "S", page |-> 2]>>
    /\ KeySet(source_folders) = {NA, Join(NA, NB), NC}
    /\ KeySet(source_files) = {Join(Join(NA, NB), NF)}


\* The cache holds a snapshot of root that is less than 30 minutes old.
HoldsSnapshot(root) ==
    /\ ContentsKey(root) \in DOMAIN cache
    /\ clock - cache[ContentsKey(root)].timestamp < 30 * 60
\* C18 (cached snapshot): when validate_migration calls
\* collect_folder_contents for the two roots while the cache holds an
\* unexpired snapshot of each, no listing is issued, neither to count the
\* items nor to enumerate them, and the destination snapshot it compares
\* against is the cached one, whole.
C18_ValidateStep ==
    (pc = "validate" /\ pc' = "done" /\ HoldsSnapshot("S") /\ HoldsSnapshot("D"))
        => /\ calls'.list = calls.list
           /\ IsSome(val')
           /\ Val(val').dest = Some(cache[ContentsKey("D")].value)
           /\ cache'[ContentsKey("S")] = cache[ContentsKey("S")]
           /\ cache'[ContentsKey("D")] = cache[ContentsKey("D")]
C18_CachedSnapshotReturned == [][C18_ValidateStep]_vars
\* Validation ran within the lifetime of the snapshots the enumerations had
\* cached, after a copy pass that copied a file, and issued no listing: the
\* listings of the run are those of the two enumerations and of the copy.
C18_Witness ==
    /\ pc = "done"
    /\ IsSome(val)
    /\ ticks = 0
    /\ calls.copy = 1
    /\ Len(dest_before) = 1
    /\ calls.list = 5
    /\ Val(val).dest = Some(cache[ContentsKey("D")].value)


\* C19 (validation and comparison are read-only): a step of validate_migration
\* and a step of compare_folders leave the remote store as it is and issue
\* neither a create nor a copy, whatever they find.
C19_ReadOnlyStep ==
    ((pc = "validate" /\ pc' = "done") \/ pc' = "compared") =>
        /\ store' = store
        /\ epoch' = epoch
        /\ nextId' = nextId
        /\ calls'.create = calls.create
        /\ calls'.copy = calls.copy
C19_ReadOnly == [][C19_ReadOnlyStep]_vars
\* Validation found a file missing in the destination and failed.
C19_Witness ==
    /\ pc = "done"
    /\ IsSome(val)
    /\ ~Val(val).passed
    /\ Val(val).errors > 0
    /\ flog = <<>>
\* A comparison found a file and a folder missing in the destination.
C19_CompareWitness ==
    /\ pc = "compared"
    /\ IsSome(report)
    /\ Len(Val(report).discrepancies.missing_files) > 0
    /\ Val(report).discrepancies.missing_folders # {}
    /\ store = dest_before


\* The paths that the discrepancies of a report name, in any of their lists
ReportedPaths(d) ==
    {d.missing_files[i].path : i \in DOMAIN d.missing_files}
    \cup {d.size_mismatches[i].path : i \in DOMAIN d.size_mismatches}
    \cup {d.checksum_mismatches[i] : i \in DOMAIN d.checksum_mismatches}
    \cup d.missing_folders \cup d.extra_folders
\* C20 (extra items are reported), as claimed: after a comparison in which no
\* remote call failed, every folder path and every file path of the
\* destination tree that the source tree does not have is named in the
\* discrepancies of the report, and the store is as it was.
C20_ExtrasReported ==
    (pc = "compared" /\ IsSome(report) /\ flog = <<>>) =>
        /\ \A path \in KeySet(Enumerate(store, "D").folders)
                          \ KeySet(Enumerate(store, "S").folders) :
              path \in Val(report).discrepancies.extra_folders
        /\ \A path \in KeySet(Enumerate(store, "D").files)
                          \ KeySet(Enumerate(store, "S").files) :
              path \in ReportedPaths(Val(report).discrepancies)
        /\ store = dest_before
\* The part of C20 that holds: the folder paths of the destination that the
\* source does not have are the extra_folders of the report.
C20_ExtraFoldersReported ==
    (pc = "compared" /\ IsSome(report) /\ flog = <<>>) =>
        /\ Val(report).discrepancies.extra_folders =
              KeySet(Enumerate(store, "D").folders)
                  \ KeySet(Enumerate(store, "S").folders)
        /\ store = dest_before


\* C21 (completion percentage): the completion percentage of a comparison
\* report is the number of files of the destination snapshot divided by the
\* number of files of the source snapshot, times 100, when the source snapshot
\* has a file, and is 100 when it has none; it is never a division by zero.
C21_CompletionPercentage ==
    (pc = "compared" /\ IsSome(report)) =>
        LET pct == Val(report).completion_percentage
            s == Len(cache[ContentsKey("S")].value.files)
            d == Len(cache[ContentsKey("D")].value.files)
        IN  /\ pct.den # 0
            /\ s > 0 => pct.num * s = d * 100 * pct.den
            /\ s = 0 => pct.num = 100 * pct.den
\* Two source files, one destination file: 50 percent.
C21_Witness ==
    /\ pc = "compared"
    /\ IsSome(report)
    /\ Len(cache[ContentsKey("S")].value.files) = 2
    /\ Len(cache[ContentsKey("D")].value.files) = 1
    /\ Val(report).completion_percentage.num
          = 50 * Val(report).completion_percentage.den
\* No source file, one destination file: 100 percent.
C21_EmptyWitness ==
    /\ pc = "compared"
    /\ IsSome(report)
    /\ Len(cache[ContentsKey("S")].value.files) = 0
    /\ Len(cache[ContentsKey("D")].value.files) = 1
    /\ Val(report).completion_percentage = [num |-> 100, den |-> 1]



\* C22 (admission completes): with rate_limit >= 1 a call to wait_if_needed
\* sleeps at most once, for more than 0 and at most time_window seconds; the
\* step on which it returns appends exactly one timestamp, the time of the
\* return, to what is left of the window; and under a fair lock every caller,
\* blocked on the lock or asleep, eventually returns.
C22_SleepBound ==
    /\ rate_limit >= 1
    /\ wslept <= wcalls
    /\ \A t \in Sleepers : wwake[t] - clock <= time_window
C22_ReturnStep ==
    wdone' # wdone =>
        /\ wdone' = wdone + 1
        /\ admitted' = Append(admitted, clock)
        /\ request_times' # <<>>
        /\ request_times'[Len(request_times')] = clock
        /\ Len(request_times') <= Len(request_times) + 1
        /\ \A i \in 1..(Len(request_times') - 1) :
               \E j \in DOMAIN request_times : request_times[j] = request_times'[i]
C22_AdmissionCompletes ==
    /\ []C22_SleepBound
    /\ [][C22_ReturnStep]_vars
    /\ \A t \in Threads : (wpc[t] # "idle") ~> (wpc[t] = "idle")
\* Every call the callers made has returned, two of them at one instant: one
\* was blocked on the lock while the other slept the whole window.
C22_Witness ==
    /\ wslept >= 1
    /\ wcalls = MaxCalls
    /\ wdone = wcalls
    /\ \A t \in Threads : wpc[t] = "idle"
    /\ \E i \in DOMAIN admitted :
           i < Len(admitted) /\ admitted[i + 1] - admitted[i] = time_window


\* C23 (snapshot ancestors): in every snapshot collect_folder_contents
\* returned, every prefix of a file key or of a folder key that ends before a
\* '/' is a key of the snapshot's folder mapping.
ProperAncestors(path) ==
    {SubSeq(path, 1, i - 1) : i \in {j \in DOMAIN path : path[j] = Sep}}
AncestorsPresent(files, folders) ==
    \A key \in KeySet(files) \cup KeySet(folders) :
        ProperAncestors(key) \subseteq KeySet(folders)
C23_SnapshotAncestors ==
    /\ AncestorsPresent(source_files, source_folders)
    /\ AncestorsPresent(dest_files, dest_folders)


\* C24 (snapshot immutability): while the cache keeps the snapshot that
\* collect_folder_contents stored for a root, no step changes the snapshot's
\* file mapping or folder mapping, so a later cache hit returns the mappings
\* that were produced.
SameEntry(root) ==
    /\ ContentsKey(root) \in DOMAIN cache
    /\ ContentsKey(root) \in DOMAIN cache'
    /\ cache'[ContentsKey(root)].timestamp = cache[ContentsKey(root)].timestamp
C24_SnapshotStep ==
    \A root \in {source_id, dest_id} :
        SameEntry(root) =>
            /\ cache'[ContentsKey(root)].value.files
                   = cache[ContentsKey(root)].value.files
            /\ cache'[ContentsKey(root)].value.folders
                   = cache[ContentsKey(root)].value.folders
C24_SnapshotImmutable == [][C24_SnapshotStep]_vars


\* C25 (cache invalidation by mutators): after a step that created a folder
\* under P the cache holds no listing of P, after a step that copied a file
\* named N into D it holds no lookup of N in D, and no entry that describes
\* the place a node was added to (the lookup by name, the listing of the
\* parent, its item count) survives the step.
AddedNodes == {i \in DOMAIN store' : \A j \in DOMAIN store : store[j].id # store'[i].id}
C25_ListingDropped ==
    \A i \in AddedNodes :
        /\ <<"folder_contents", <<store'[i].parent>>>> \notin DOMAIN cache'
        /\ ContentsKey(store'[i].parent) \notin DOMAIN cache'
        /\ ItemCountKey(store'[i].parent) \notin DOMAIN cache'
C25_LookupDropped ==
    \A i \in AddedNodes :
        IF store'[i].mimeType = FolderMime
        THEN FolderByNameKey(store'[i].parent, store'[i].name) \notin DOMAIN cache'
        ELSE FileInFolderKey(store'[i].parent, store'[i].name) \notin DOMAIN cache'
C25_CopyLookupDropped == [][C25_LookupDropped]_vars
C25_MutatorsInvalidate == [][C25_ListingDropped /\ C25_LookupDropped]_vars


-----------------------------------------------------------------------------
\* FolderManager.create_folder on its own: called again and again on folders
\* of the destination, while the service may fail remote calls.

MaxFolderCalls == 3      \* how many times create_folder is called
MaxFolderFailures == 2   \* how many of the calls the service may fail in
FolderNames == {NA, NB}
FolderParents(st) ==
    {dest_id} \cup {st[i].id : i \in {j \in DOMAIN st : st[j].mimeType = FolderMime}}

\* copy_log records the calls: name, parent_id and the returned Optional[str]
CreateFolderCalled(w, name, parent_id, front) ==
    /\ Happens(w)
    /\ front => w.fronted
    /\ Commit(w)
    /\ copy_log' = Append(copy_log, [name |-> name, parent |-> parent_id,
                                     ret |-> w.ret])
CreateFolderCall ==
    /\ pc = "mkdir"
    /\ idx < MaxFolderCalls
    /\ \E name \in FolderNames, parent_id \in FolderParents(store),
          failAt \in FailPoints, failStatus \in FailStatuses, front \in BOOLEAN :
         CreateFolderCalled(
             create_folder(World(failAt, failStatus, front), name, parent_id),
             name, parent_id, front)
    /\ idx' = idx + 1
    /\ UNCHANGED report
    /\ UNCHANGED <<pc, results, source_files, source_folders, dest_files,
                   dest_folders, to_copy, all_paths, success, val>>

InitFolders ==
    /\ GovInit({user_rate_limit}, {user_time_window})
    /\ RetryIdle
    /\ store \in {DeepDest(da, db) : da \in BOOLEAN, db \in BOOLEAN}
    /\ nextId = 1 /\ epoch = 0 /\ cache = <<>>
    /\ prog = ZeroProgress /\ calls = ZeroCalls /\ flog = <<>>
    /\ pc = "mkdir" /\ run = 1 /\ max_runs = 1
    /\ fail_budget = MaxFolderFailures
    /\ final_validation = FALSE
    /\ source_files = <<>> /\ source_folders = <<>>
    /\ dest_files = <<>> /\ dest_folders = <<>>
    /\ to_copy = <<>> /\ all_paths = <<>> /\ idx = 0 /\ success = TRUE
    /\ results = <<>> /\ ticks = 0 /\ dest_before = store
    /\ copy_log = <<>> /\ val = None /\ report = None
    /\ CacheIdle /\ ConfigDefault /\ SingletonsBuilt /\ NoGovernedCall /\ NoStatement /\ NoProgressError
NextFolders == CreateFolderCall
SpecFolders == InitFolders /\ [][NextFolders]_vars

\* C26 (idempotent folder creation): create_folder issues files().create only
\* if no folder of that name is under the parent, and otherwise returns the id
\* of one that is; after any sequence of calls, failed lookups and failed
\* verifications included, no parent holds two folders of one name that were
\* both created by create_folder.
ToolCreated(n) == \E i \in DOMAIN NewIds : NewIds[i] = n.id
LastCall == copy_log'[Len(copy_log')]
C26_CallStep ==
    (pc = "mkdir" /\ Len(copy_log') = Len(copy_log) + 1) =>
        /\ calls'.create > calls.create
               => Len(FoldersNamedIn(store, LastCall.parent, LastCall.name)) = 0
        /\ Len(FoldersNamedIn(store, LastCall.parent, LastCall.name)) > 0
               => /\ IsSome(LastCall.ret)
                  /\ \E i \in DOMAIN store :
                         /\ store[i].id = Val(LastCall.ret)
                         /\ store[i].parent = LastCall.parent
                         /\ store[i].name = LastCall.name
C26_NoTwins ==
    \A i, j \in DOMAIN store :
        (/\ i # j
         /\ store[i].mimeType = FolderMime /\ store[j].mimeType = FolderMime
         /\ store[i].parent = store[j].parent /\ store[i].name = store[j].name)
            => ~(ToolCreated(store[i]) /\ ToolCreated(store[j]))
C26_OnlyIfAbsent == [][C26_CallStep]_vars
C26_IdempotentCreate == [][C26_CallStep]_vars /\ []C26_NoTwins


\* C27 (copy pre-check): a turn of the copy pass that has the source metadata
\* skips the item, counting it skipped and successful and issuing no
\* files().copy, exactly when the lookup of the name in the parent answers
\* with a file (the one the cache holds for the lookup, else the first the
\* service lists) and either both hashes are there and equal and the sizes are
\* equal, or both are native documents of one type; in every other case it
\* issues exactly one files().copy.
LastCopy == copy_log'[Len(copy_log')]
FailedIn(op) ==
    \E i \in DOMAIN flog' : i > Len(flog) /\ flog'[i].op = op
LookupKey == FileInFolderKey(LastCopy.parent, LastName(LastCopy.path))
LookedUp ==
    IF FailedIn("find_file_in_folder") THEN <<>>
    ELSE IF LookupKey \in DOMAIN cache /\ Unexpired(cache[LookupKey], clock)
    THEN <<cache[LookupKey].value>>
    ELSE NamedIn(store, LastCopy.parent, LastName(LastCopy.path))
SourceMetadata ==
    /\ ~FailedIn("get_file_details")
    /\ HasNode(store, LastCopy.src_id)
Identical(s, d) ==
    \/ /\ s.md5Checksum # None /\ d.md5Checksum # None
       /\ s.md5Checksum = d.md5Checksum
       /\ s.size = d.size
    \/ /\ s.mimeType \in {DocMime, FolderMime} /\ d.mimeType \in {DocMime, FolderMime}
       /\ s.mimeType = d.mimeType
C27_CopyStep ==
    (pc = "copy" /\ Len(copy_log') = Len(copy_log) + 1 /\ SourceMetadata) =>
        IF Len(LookedUp) > 0
           /\ Identical(NodeOf(store, LastCopy.src_id), LookedUp[1])
        THEN /\ prog'.skipped_copies = prog.skipped_copies + 1
             /\ LastCopy.copy_ok
             /\ calls'.copy = calls.copy
        ELSE /\ prog'.skipped_copies = prog.skipped_copies
             /\ calls'.copy = calls.copy + 1
C27_CopyPrecheck == [][C27_CopyStep]_vars
\* The pass skipped an item on a file the lookup found ...
C27_Witness ==
    /\ pc = "done"
    /\ prog.skipped_copies = 1
    /\ calls.copy = 0
    /\ Len(copy_log) = 1 /\ copy_log[1].copy_ok
    /\ flog = <<>>
\* ... and copied an item beside a file of its name that differs.
C27_CopyWitness ==
    /\ pc = "done"
    /\ prog.skipped_copies = 0
    /\ calls.copy = 1
    /\ Len(copy_log) = 1
    /\ Len(NamedIn(dest_before, dest_id, NF)) = 1
    /\ flog = <<>>


-----------------------------------------------------------------------------
\* The two enumerations of a run on their own, over trees of folders in which
\* the source may also hold a folder x with a file y.

EnumSource(hasX) ==
    Opt(hasX, Node("s9", source_id, <<"x">>, FolderMime, None, None, FALSE))
    \o Opt(hasX, Node("s10", "s9", <<"y">>, DocMime, None, None, FALSE))
EnumTrees == {t \o EnumSource(hasX) : t \in DeepTrees, hasX \in BOOLEAN}
InitEnum == EngineInitOn(EnumTrees, 1, MaxFailures)
NextEnum ==
    \/ Preflight
    \/ EnumerateSource
    \/ EnumerateDest
SpecEnum == InitEnum /\ [][NextEnum]_vars

\* C28 (enumeration completeness): when every listing succeeded, the snapshot
\* of a root holds its descendants, each once and in pre-order: the keys of
\* the folder mapping are the paths of the folders, the keys of the file
\* mapping the paths of the files, and a file's entry holds its id, its size
\* (0 when the service reports none) and its hash (possibly null).
RECURSIVE PreOrder(_, _, _, _, _)
PreOrder(st, items, i, path, kind) ==
    IF i > Len(items) THEN <<>>
    ELSE (IF items[i].mimeType = FolderMime
          THEN (IF kind = "folders" THEN <<Join(path, items[i].name)>> ELSE <<>>)
               \o PreOrder(st, Children(st, items[i].id), 1,
                           Join(path, items[i].name), kind)
          ELSE (IF kind = "files" THEN <<Join(path, items[i].name)>> ELSE <<>>))
         \o PreOrder(st, items, i + 1, path, kind)
SiblingsUnique(st) ==
    \A i, j \in DOMAIN st :
        (st[i].parent = st[j].parent /\ st[i].name = st[j].name) => i = j
EntryOf(n) ==
    [id |-> n.id, size |-> IF n.size = None THEN 0 ELSE n.size[1],
     checksum |-> n.md5Checksum]
CompleteSnapshot(snap, st, root) ==
    /\ DictKeys(snap.folders) = PreOrder(st, Children(st, root), 1, <<>>, "folders")
    /\ DictKeys(snap.files) = PreOrder(st, Children(st, root), 1, <<>>, "files")
    /\ \A i \in DOMAIN st :
          (~st[i].trashed /\ IsBelow(st, st[i], root)) =>
             IF st[i].mimeType = FolderMime
             THEN DictGet(snap.folders, PathBelow(st, st[i], root)) = st[i].id
             ELSE DictGet(snap.files, PathBelow(st, st[i], root)) = EntryOf(st[i])
C28_EnumerationComplete ==
    \A root \in {source_id, dest_id} :
        (/\ pc \in {"enum_dst", "diff"}
         /\ ContentsKey(root) \in DOMAIN cache
         /\ cache[ContentsKey(root)].value.complete
         /\ SiblingsUnique(store))
            => CompleteSnapshot(cache[ContentsKey(root)].value, store, root)


\* C29 (truncated exponential backoff): the delay before the k-th retry
\* (k = 0, 1, 2, ...), jitter apart, is min(base_delay * 2^k, max_backoff),
\* with base_delay = 1 and a default max_backoff of 64; the delays never
\* decrease and never exceed max_backoff, and the jitter is in [0, 1).
Truncated(k) == IF Pow2(k) <= max_backoff THEN Pow2(k) ELSE max_backoff
C29_TruncatedBackoff ==
    /\ base_delay = 1
    /\ DefaultMaxBackoff = 64
    /\ \A i \in DOMAIN rsleeps :
          /\ rsleeps[i][1] = Truncated(i - 1)
          /\ rsleeps[i][1] <= max_backoff
          /\ i > 1 => rsleeps[i - 1][1] <= rsleeps[i][1]
          /\ 0 <= rsleeps[i][2] /\ rsleeps[i][2] < JitterDen
\* A second retry was delayed by max_backoff, less than 2^1, plus a jitter.
C29_Witness ==
    /\ Len(rsleeps) = 2
    /\ rsleeps[2][1] = max_backoff
    /\ rsleeps[2][1] < Pow2(1)
    /\ rsleeps[2][2] > 0


-----------------------------------------------------------------------------
\* A call of a function that @rate_limited wraps, in a process whose
\* configuration names max_retries: wrapped() hands func, args and kwargs to
\* execute_with_retry (RateLimiter.py lines 124-126) and names neither
\* max_retries nor max_backoff, so the defaults of lines 78-79 apply.

\* The defaults allow eleven invocations of func.  The outcome of an invocation
\* ranges over every status, the jitter over Jitters and the lag of a sleep
\* over {0, 1}; a behaviour of SpecGoverned has MaxIterations iterations of
\* the loop at most.
MaxIterations == 4
GovernedAttempt ==
    /\ Len(rhist) < MaxIterations
    /\ RetryAttemptOf({0, 1}, Statuses \cup {OK}, Jitters)
InitGoverned ==
    /\ GovInit({1, DefaultRateLimit}, {2, DefaultTimeWindow})
    /\ rpc = "loop"
    /\ retry_count = 0
    /\ max_retries = DefaultMaxRetries
    /\ max_backoff = DefaultMaxBackoff
    /\ rhist = <<>>
    /\ rsleeps = <<>>
    /\ rraised = NoError
    /\ EngineIdle
    /\ CacheIdle
    /\ cfg_max_retries \in 0..MaxRetries
    /\ SingletonsBuilt /\ NoGovernedCall /\ NoStatement /\ NoProgressError
NextGoverned == GovernedAttempt
SpecGoverned == InitGoverned /\ [][NextGoverned]_vars

\* C30 (configured retry bound): a governed call that fails retriably every
\* time is attempted at most max_retries + 1 times, max_retries being the
\* value the configuration supplies.
C30_ConfiguredBound ==
    AllRetriable => Len(rhist) <= cfg_max_retries + 1


\* C31 (a failed folder creation is a warning): a run without final
\* validation in which a folder creation of the folder-creation pass failed
\* (files().create, or the verification after it) and in which every planned
\* copy was made and succeeded returns True.
FolderCreationFailed ==
    \E i \in DOMAIN flog :
        /\ flog[i].at = "folders"
        /\ flog[i].op \in {"create_folder", "verify_folder_exists"}
EveryCopySucceeded ==
    /\ Len(copy_log) = Len(to_copy)
    /\ \A i \in DOMAIN copy_log : copy_log[i].copy_ok
C31_FolderFailureIsWarning ==
    (Finished /\ ~final_validation /\ FolderCreationFailed /\ EveryCopySucceeded)
        => results[run] = TRUE


-----------------------------------------------------------------------------
\* One run of migrate.py in which the service may fail remote calls in two
\* steps, over trees whose source holds folder a and the file a/f.

MaxRunFailures == 2
FaultyTrees ==
    {SourceTree(TRUE, sf, TRUE, "bin") \o DestTree(da, f, "absent", FALSE, "bin") :
        sf \in BOOLEAN, da \in BOOLEAN, f \in {"absent", "same"}}
InitFaulty == EngineInitOn(FaultyTrees, 1, MaxRunFailures)
SpecFaulty == InitFaulty /\ [][Next]_vars

\* C32 (copy target): in a turn of the copy pass for the planned path p, a
\* file that is copied lands in the destination folder whose path is the
\* parent path of p (the destination root for a top-level file), and a folder
\* that is created has the path of a proper prefix of p; so when a folder of
\* p is neither in the mapping nor created, nothing is copied or created
\* elsewhere.
C32_CopyStep ==
    (pc = "copy" /\ Len(copy_log') = Len(copy_log) + 1) =>
        \A i \in AddedNodes :
            /\ IsBelow(store', store'[i], dest_id)
            /\ IF store'[i].mimeType = FolderMime
               THEN PathBelow(store', store'[i], dest_id)
                        \in ProperAncestors(LastCopy.path)
               ELSE PathBelow(store', store'[i], dest_id) = LastCopy.path
C32_CopyTarget == [][C32_CopyStep]_vars


\* C33 (a first sync succeeds on a healthy service): a run with final
\* validation, on a source that holds a file the destination lacks, in which
\* no remote call failed, returns True.
MissingAtStart ==
    \E q \in KeySet(Enumerate(dest_before, source_id).files) :
        q \notin KeySet(Enumerate(dest_before, dest_id).files)
C33_FirstSyncSucceeds ==
    (Finished /\ final_validation /\ flog = <<>> /\ MissingAtStart)
        => results[run] = TRUE


\* C34 (only complete enumerations are cached): the snapshot the cache holds
\* under the enumeration key of a root comes from an enumeration in which no
\* listing failed, and validate_migration is never served a snapshot that a
\* listing error left short.
C34_OnlyCompleteCached ==
    /\ \A root \in {source_id, dest_id} :
          ContentsKey(root) \in DOMAIN cache
              => cache[ContentsKey(root)].value.complete
    /\ IsSome(val) =>
          /\ IsSome(Val(val).dest) => Val(Val(val).dest).complete

-----------------------------------------------------------------------------
\* wait_if_needed and configure_rate_limits statement by statement.
\* configure_rate_limits takes no lock, so its two assignments (lines 45, 46)
\* fall anywhere between the statements of a thread inside wait_if_needed,
\* which reads self.time_window for every element of its list comprehensions
\* (lines 56-59, 70-73) and at line 62, and self.rate_limit at line 60.

StmtFrame ==
    /\ UNCHANGED <<retryVars, engVars>>
    /\ UNCHANGED <<report, cset, cgot, cfg_max_retries, prog_raised, singVars, nestVars>>

\* Line 45, `self.rate_limit = rate_limit`; line 46 is still to come.
configure_rate_limits(limit, window) ==
    /\ cfg_window = None
    /\ rate_limit' = limit
    /\ cfg_window' = Some(window)
    /\ UNCHANGED <<clock, request_times, time_window, request_lock, wpc, wwake,
                   wcalls, wdone, wslept, admitted, wnow, wcur, wacc>>
    /\ StmtFrame
\* Line 46, `self.time_window = time_window`, and the return.
configure_rate_limits_window ==
    /\ IsSome(cfg_window)
    /\ time_window' = Val(cfg_window)
    /\ cfg_window' = None
    /\ UNCHANGED <<clock, request_times, rate_limit, request_lock, wpc, wwake,
                   wcalls, wdone, wslept, admitted, wnow, wcur, wacc>>
    /\ StmtFrame

\* Lines 53-55: the thread takes the request lock, reads the clock and begins
\* the list comprehension.
LockTaken(t) ==
    /\ wpc[t] = "waiting"
    /\ request_lock = NoThread
    /\ request_lock' = t
    /\ wcalls' = wcalls + 1
    /\ wnow' = [wnow EXCEPT ![t] = clock]
    /\ wcur' = [wcur EXCEPT ![t] = 1]
    /\ wacc' = [wacc EXCEPT ![t] = <<>>]
    /\ wpc' = [wpc EXCEPT ![t] = "prune"]
    /\ UNCHANGED <<clock, request_times, rate_limit, time_window, wwake, wdone,
                   wslept, admitted, cfg_window>>
    /\ StmtFrame
\* One element of a comprehension (lines 57-58, 71-72): kept if it is younger
\* than the time_window of this moment.
PruneElement(t) ==
    /\ wpc[t] \in {"prune", "reprune"}
    /\ wcur[t] <= Len(request_times)
    /\ wacc' = [wacc EXCEPT ![t] =
                  IF wnow[t] - request_times[wcur[t]] < time_window
                  THEN Append(@, request_times[wcur[t]]) ELSE @]
    /\ wcur' = [wcur EXCEPT ![t] = @ + 1]
    /\ UNCHANGED <<clock, request_times, rate_limit, time_window, request_lock,
                   wpc, wwake, wcalls, wdone, wslept, admitted, wnow, cfg_window>>
    /\ StmtFrame
\* Line 56: the first comprehension is over, its list is assigned.
PruneAssigned(t) ==
    /\ wpc[t] = "prune"
    /\ wcur[t] > Len(request_times)
    /\ request_times' = wacc[t]
    /\ wpc' = [wpc EXCEPT ![t] = "test"]
    /\ UNCHANGED <<clock, rate_limit, time_window, request_lock, wwake, wcalls,
                   wdone, wslept, admitted, wnow, wcur, wacc, cfg_window>>
    /\ StmtFrame
\* Line 74 and the end of the `with` block: the append, the release, the
\* return, with which the locals are gone.
Appended(t, times) ==
    /\ request_times' = Append(times, wnow[t])
    /\ admitted' = Append(admitted, wnow[t])
    /\ request_lock' = NoThread
    /\ wdone' = wdone + 1
    /\ wpc' = [wpc EXCEPT ![t] = "idle"]
    /\ wnow' = [wnow EXCEPT ![t] = 0]
    /\ wcur' = [wcur EXCEPT ![t] = 0]
    /\ wacc' = [wacc EXCEPT ![t] = <<>>]
\* Line 60: `if len(self.request_times) >= self.rate_limit`; if not, line 74.
RateTested(t) ==
    /\ wpc[t] = "test"
    /\ IF Len(request_times) >= rate_limit
       THEN /\ wpc' = [wpc EXCEPT ![t] = "sleep_time"]
            /\ UNCHANGED <<request_times, request_lock, wdone, admitted, wnow,
                           wcur, wacc>>
       ELSE Appended(t, request_times)
    /\ UNCHANGED <<clock, rate_limit, time_window, wwake, wcalls, wslept,
                   cfg_window>>
    /\ StmtFrame
\* Lines 61-67: sleep_time from the oldest timestamp and the time_window of
\* this moment; the sleep begins, holding the lock, or line 74 follows.
SleepTimeTaken(t) ==
    /\ wpc[t] = "sleep_time"
    /\ IF request_times # <<>> /\ SleepTime(request_times, wnow[t], time_window) > 0
       THEN /\ wpc' = [wpc EXCEPT ![t] = "sleeping"]
            /\ wwake' = [wwake EXCEPT
                           ![t] = clock + SleepTime(request_times, wnow[t],
                                                    time_window)]
            /\ wslept' = wslept + 1
            /\ UNCHANGED <<request_times, request_lock, wdone, admitted, wnow,
                           wcur, wacc>>
       ELSE /\ Appended(t, request_times)
            /\ UNCHANGED <<wwake, wslept>>
    /\ UNCHANGED <<clock, rate_limit, time_window, wcalls, cfg_window>>
    /\ StmtFrame
\* Lines 68-69: time.sleep() has returned, the clock is read again and the
\* second comprehension begins.
Woken(t) ==
    /\ wpc[t] = "sleeping"
    /\ clock >= wwake[t]
    /\ wnow' = [wnow EXCEPT ![t] = clock]
    /\ wcur' = [wcur EXCEPT ![t] = 1]
    /\ wacc' = [wacc EXCEPT ![t] = <<>>]
    /\ wpc' = [wpc EXCEPT ![t] = "reprune"]
    /\ UNCHANGED <<clock, request_times, rate_limit, time_window, request_lock,
                   wwake, wcalls, wdone, wslept, admitted, cfg_window>>
    /\ StmtFrame
\* Lines 70 and 74: the second comprehension is over, its list is assigned and
\* the timestamp appended.
RepruneAppended(t) ==
    /\ wpc[t] = "reprune"
    /\ wcur[t] > Len(request_times)
    /\ Appended(t, wacc[t])
    /\ UNCHANGED <<clock, rate_limit, time_window, wwake, wcalls, wslept,
                   cfg_window>>
    /\ StmtFrame

\* The governor with reconfiguration at any moment.
NextReconf ==
    \/ \E t \in Threads : WaitCall(t)
    \/ \E t \in Threads : LockTaken(t)
    \/ \E t \in Threads : PruneElement(t)
    \/ \E t \in Threads : PruneAssigned(t)
    \/ \E t \in Threads : RateTested(t)
    \/ \E t \in Threads : SleepTimeTaken(t)
    \/ \E t \in Threads : Woken(t)
    \/ \E t \in Threads : RepruneAppended(t)
    \/ TickRL
    \/ \E limit \in 1..MaxRate, window \in 1..MaxWindow :
          configure_rate_limits(limit, window)
    \/ configure_rate_limits_window
SpecReconf == InitRL /\ [][NextReconf]_vars

\* C35 (the window invariant survives reconfiguration): whenever a
\* wait_if_needed call returns, request_times holds at most rate_limit
\* timestamps, for the rate_limit in force at the return, also after
\* configure_rate_limits has changed the limits.
C35_ReturnStep ==
    (wdone' = wdone + 1) => Len(request_times') <= rate_limit'
C35_WindowAfterReconfigure == [][C35_ReturnStep]_vars

-----------------------------------------------------------------------------
\* The construction of the singletons: cls() runs __new__ (RateLimiter.py lines
\* 20-26, APICache.py lines 13-19) and then __init__ on what it returned (lines
\* 28-37, lines 21-28).  Every thread constructs each class once and then uses
\* the instance once.  A step is what a thread does between two points at which
\* another thread can observe or change the class or the instance.

SingFrameBut ==
    /\ UNCHANGED <<clock, wpc, wwake, wcalls, wdone, wslept, admitted, retryVars>>
    /\ UNCHANGED <<store, nextId, epoch, prog, calls, flog, pc, run, max_runs,
                   fail_budget, final_validation, source_files, source_folders,
                   dest_files, dest_folders, to_copy, all_paths, idx, success,
                   results, ticks, dest_before, copy_log, val>>
    /\ UNCHANGED <<report, cset, cgot, cfg_max_retries, prog_raised, nestVars>>
    /\ UNCHANGED <<wcur, cfg_window>>
SingFrame ==
    /\ SingFrameBut
    /\ UNCHANGED <<wnow, wacc>>
SharedState == <<request_times, rate_limit, time_window, request_lock, cache>>
Goto(t, c, label) == kpc' = [kpc EXCEPT ![t][c] = label]

\* __new__, the unlocked test `if cls._instance is None` (line 21 / line 14):
\* the thread goes for the class lock, or returns the instance (line 26 / 19).
NewTest(t, c) ==
    /\ kpc[t][c] = "start"
    /\ Goto(t, c, IF instance[c] = 0 THEN "new_lock" ELSE "init")
    /\ UNCHANGED <<instance, initialized, class_lock, state_inits, lock_inits>>
    /\ UNCHANGED SharedState
    /\ SingFrame

\* `with cls._lock:` and the second test: the thread creates the object and
\* binds cls._instance (lines 22-24 / 15-17), still holding the lock; or it
\* finds an instance, releases the lock and returns it.
NewLocked(t, c) ==
    /\ kpc[t][c] = "new_lock"
    /\ class_lock[c] = NoThread
    /\ IF instance[c] = 0
       THEN /\ instance' = [instance EXCEPT ![c] = @ + 1]
            /\ class_lock' = [class_lock EXCEPT ![c] = t]
            /\ Goto(t, c, "new_made")
       ELSE /\ Goto(t, c, "init")
            /\ UNCHANGED <<instance, class_lock>>
    /\ UNCHANGED <<initialized, state_inits, lock_inits>>
    /\ UNCHANGED SharedState
    /\ SingFrame

\* `cls._instance._initialized = False` (line 25 / 18), the release of the class
\* lock and the return.
NewUnset(t, c) ==
    /\ kpc[t][c] = "new_made"
    /\ initialized' = [initialized EXCEPT ![c] = FALSE]
    /\ class_lock' = [class_lock EXCEPT ![c] = NoThread]
    /\ Goto(t, c, "init")
    /\ UNCHANGED <<instance, state_inits, lock_inits>>
    /\ UNCHANGED SharedState
    /\ SingFrame

\* __init__, `if getattr(self, '_initialized', False): return` (lines 29-30 /
\* 22-23).
InitTest(t, c) ==
    /\ kpc[t][c] = "init"
    /\ Goto(t, c, IF initialized[c] THEN "built" ELSE "init_state")
    /\ UNCHANGED <<instance, initialized, class_lock, state_inits, lock_inits>>
    /\ UNCHANGED SharedState
    /\ SingFrame

\* __init__, the assignments of the shared state: request_times, rate_limit,
\* time_window (RateLimiter.py lines 31-35); _cache and _cache_lock
\* (APICache.py lines 25-27).
InitState(t, c) ==
    /\ kpc[t][c] = "init_state"
    /\ state_inits' = [state_inits EXCEPT ![c] = @ + 1]
    /\ IF c = "RateLimiter"
       THEN /\ request_times' = <<>>
            /\ rate_limit' = DefaultRateLimit
            /\ time_window' = DefaultTimeWindow
            /\ UNCHANGED <<cache, lock_inits>>
       ELSE /\ cache' = cache_clear(cache)
            /\ lock_inits' = [lock_inits EXCEPT ![c] = @ + 1]
            /\ UNCHANGED <<request_times, rate_limit, time_window>>
    /\ Goto(t, c, "init_flag")
    /\ UNCHANGED <<instance, initialized, class_lock, request_lock>>
    /\ SingFrame

\* __init__, `self._initialized = True` (line 36 / line 28).
InitFlag(t, c) ==
    /\ kpc[t][c] = "init_flag"
    /\ initialized' = [initialized EXCEPT ![c] = TRUE]
    /\ Goto(t, c, IF c = "RateLimiter" THEN "init_lock" ELSE "built")
    /\ UNCHANGED <<instance, class_lock, state_inits, lock_inits>>
    /\ UNCHANGED SharedState
    /\ SingFrame

\* RateLimiter.__init__, `self._request_lock = threading.Lock()` (line 37): a new
\* lock, which nobody holds.
InitLock(t, c) ==
    /\ kpc[t][c] = "init_lock"
    /\ lock_inits' = [lock_inits EXCEPT ![c] = @ + 1]
    /\ request_lock' = NoThread
    /\ Goto(t, c, "built")
    /\ UNCHANGED <<instance, initialized, class_lock, state_inits>>
    /\ UNCHANGED <<request_times, rate_limit, time_window, cache>>
    /\ SingFrame

\* The thread uses what the constructor returned: limiter.wait_if_needed() or
\* cache.set(key, value).
\* wait_if_needed is not one step: __init__ takes no lock, so another thread's
\* `self.request_times = []` (line 31) and `self._request_lock =
\* threading.Lock()` (line 37) fall between its statements, and with the lock
\* replaced both threads can be inside the `with` block at once.  Its steps end
\* where it reads or assigns self.request_times.
\* cache.set stores into self._cache in one statement (APICache.py lines 45-49);
\* _cache and _cache_lock are assigned before _initialized (lines 26-29), so
\* the thread finds them, and an __init__ that replaces _cache during the call
\* discards the entry as it does right after the call.
\*
\* Lines 53-54: `with self._request_lock` raises AttributeError when no
\* __init__ has reached line 37; otherwise the thread takes the lock the
\* attribute names now, which blocks while another thread holds that lock, and
\* reads the clock.
UseInstance(t, c) ==
    /\ kpc[t][c] = "built"
    /\ IF c = "RateLimiter"
       THEN /\ IF lock_inits[c] = 0
               THEN /\ Goto(t, c, "raised")
                    /\ UNCHANGED <<request_lock, wnow>>
               ELSE /\ request_lock = NoThread
                    /\ request_lock' = t
                    /\ wnow' = [wnow EXCEPT ![t] = clock]
                    /\ Goto(t, c, "use_prune")
            /\ UNCHANGED cache
       ELSE /\ Goto(t, c, "used")
            /\ \E key \in CacheKeys, value \in CacheValues :
                  cache' = cache_set(cache, key, value, clock)
            /\ UNCHANGED <<request_lock, wnow>>
    /\ UNCHANGED <<instance, initialized, class_lock, state_inits, lock_inits>>
    /\ UNCHANGED <<request_times, rate_limit, time_window, wacc>>
    /\ SingFrameBut
\* Lines 56-59, the comprehension: it walks the list self.request_times names
\* when it starts and ends at the length that list has then, so it holds what
\* the list holds at the moment it ends, less the timestamps that are too old.
UsePruned(t) ==
    /\ kpc[t]["RateLimiter"] = "use_prune"
    /\ wacc' = [wacc EXCEPT ![t] = Prune(request_times, wnow[t], time_window)]
    /\ Goto(t, "RateLimiter", "use_assign")
    /\ UNCHANGED <<instance, initialized, class_lock, state_inits, lock_inits>>
    /\ UNCHANGED SharedState
    /\ UNCHANGED wnow
    /\ SingFrameBut
\* Line 56, the assignment: the list of the comprehension replaces whatever
\* self.request_times names by now.
UseAssigned(t) ==
    /\ kpc[t]["RateLimiter"] = "use_assign"
    /\ request_times' = wacc[t]
    /\ Goto(t, "RateLimiter", "use_append")
    /\ UNCHANGED <<instance, initialized, class_lock, state_inits, lock_inits>>
    /\ UNCHANGED <<rate_limit, time_window, request_lock, cache>>
    /\ UNCHANGED <<wnow, wacc>>
    /\ SingFrameBut
\* Lines 60 and 74: the list is shorter than rate_limit (two threads, one call
\* each, the default limit), so `now` is appended to the list
\* self.request_times names at this moment; the `with` block ends and releases
\* the lock the thread took, which is no longer self._request_lock if an
\* __init__ has replaced it.
UseAppended(t) ==
    /\ kpc[t]["RateLimiter"] = "use_append"
    /\ Len(request_times) < rate_limit
    /\ request_times' = Append(request_times, wnow[t])
    /\ request_lock' = IF request_lock = t THEN NoThread ELSE request_lock
    /\ wnow' = [wnow EXCEPT ![t] = 0]
    /\ wacc' = [wacc EXCEPT ![t] = <<>>]
    /\ Goto(t, "RateLimiter", "used")
    /\ UNCHANGED <<instance, initialized, class_lock, state_inits, lock_inits>>
    /\ UNCHANGED <<rate_limit, time_window, cache>>
    /\ SingFrameBut

\* The process has just started: no instance of either class exists.
InitSingletons ==
    /\ GovInit({DefaultRateLimit}, {DefaultTimeWindow})
    /\ RetryIdle /\ EngineIdle /\ CacheIdle /\ ConfigDefault /\ NoGovernedCall /\ NoStatement /\ NoProgressError
    /\ instance = [c \in Classes |-> 0]
    /\ initialized = [c \in Classes |-> FALSE]
    /\ class_lock = [c \in Classes |-> NoThread]
    /\ kpc = [t \in Threads |-> [c \in Classes |-> "start"]]
    /\ state_inits = [c \in Classes |-> 0]
    /\ lock_inits = [c \in Classes |-> 0]
NextSingletons ==
    \/ \E t \in Threads, c \in Classes : NewTest(t, c)
    \/ \E t \in Threads, c \in Classes : NewLocked(t, c)
    \/ \E t \in Threads, c \in Classes : NewUnset(t, c)
    \/ \E t \in Threads, c \in Classes : InitTest(t, c)
    \/ \E t \in Threads, c \in Classes : InitState(t, c)
    \/ \E t \in Threads, c \in Classes : InitFlag(t, c)
    \/ \E t \in Threads, c \in Classes : InitLock(t, c)
    \/ \E t \in Threads, c \in Classes : UseInstance(t, c)
    \/ \E t \in Threads : UsePruned(t)
    \/ \E t \in Threads : UseAssigned(t)
    \/ \E t \in Threads : UseAppended(t)
SpecSingletons == InitSingletons /\ [][NextSingletons]_vars

\* C36 (singleton state is initialised exactly once): under every interleaving
\* of the constructing threads there is one instance per class, its shared
\* state and its lock are initialised at most once, and no step of a
\* construction removes a timestamp from request_times or an entry from the
\* cache.
C36_Step ==
    /\ \A c \in Classes :
          /\ instance'[c] <= 1
          /\ state_inits'[c] <= 1
          /\ lock_inits'[c] <= 1
    /\ Len(request_times') >= Len(request_times)
    /\ DOMAIN cache \subseteq DOMAIN cache'
C36_InitialisedOnce == [][C36_Step]_vars

\* C37 (outcome counters are consistent): processed_files is always the sum of
\* successful_copies, failed_copies and skipped_copies; a _copy_file call
\* raises exactly one of the three by one, failed_copies if and only if it
\* returns False; when the copy pass is over the three have grown, from zero,
\* by the number of planned copies.
Outcomes(stats) ==
    <<stats.successful_copies, stats.failed_copies, stats.skipped_copies>>
OutcomeSum(stats) ==
    stats.successful_copies + stats.failed_copies + stats.skipped_copies
C37_Sum ==
    /\ prog.processed_files = OutcomeSum(prog)
    /\ pc \in {"validate", "done"} => OutcomeSum(prog) = Len(to_copy)
C37_CopyCallStep ==
    (pc = "copy" /\ Len(copy_log') = Len(copy_log) + 1) =>
        /\ OutcomeSum(prog') = OutcomeSum(prog) + 1
        /\ \A i \in 1..3 : Outcomes(prog')[i] >= Outcomes(prog)[i]
        /\ prog'.processed_files = prog.processed_files + 1
        /\ (prog'.failed_copies = prog.failed_copies + 1) <=> ~LastCopy.copy_ok
C37_CountersConsistent == []C37_Sum /\ [][C37_CopyCallStep]_vars
\* A pass over two planned copies has ended with one copy made and one failed.
C37_Witness ==
    /\ pc \in {"validate", "done"}
    /\ Len(to_copy) = 2 /\ Len(copy_log) = 2
    /\ prog.successful_copies = 1
    /\ prog.failed_copies = 1
    /\ prog.processed_files = 2

-----------------------------------------------------------------------------
\* Governed calls inside governed calls.  A call of a @rate_limited function
\* runs wrapped() (RateLimiter.py lines 123-126), which runs wait_if_needed and
\* then the function itself (lines 91-92); the function may use the cache and
\* call further @rate_limited functions.  A frame of the stack is a call the
\* thread is inside of: its function and where the thread is in it, "admit" (in
\* wait_if_needed), "get" (inside cache.get, holding the cache lock), "run" (in
\* the body of the function), "put" (inside cache.set or cache.remove).

MaxDepth == 3          \* governed calls inside each other, per thread
MaxGovernedCalls == 3  \* governed calls per behaviour of SpecNested
MaxNestTime == 0       \* governed calls start while clock <= MaxNestTime

\* The @rate_limited functions: FolderManager.py lines 20, 58, 76, 106, 114,
\* 141, 201, 224; FileManager.py lines 18, 39, 96; ValidationManager.py line
\* 25; MigrationManager.py line 59.  Each is public or called from a function
\* that is not governed (run_preliminary_tests, print_folder_structure,
\* copy_files, get_missing_files_list, compare_folders, main).
TopLevel ==
    {"_count_items", "get_folder_details", "create_folder",
     "verify_folder_exists", "find_folder_by_name", "collect_folder_contents",
     "get_folder_contents", "get_total_file_count", "get_file_details",
     "find_file_in_folder", "_copy_file", "validate_file_transfer",
     "execute_sync_migration"}
\* The @rate_limited functions that the body of f calls, itself or through
\* functions that are not governed: MigrationManager.py lines 70-71 (215, 217),
\* 79, 84, 152, 191, 202, 119 (ValidationManager.py lines 92, 97, 108);
\* FileManager.py lines 101, 108; ValidationManager.py lines 39, 40;
\* FolderManager.py lines 151, 46, 79, 95, 246.
Callees(f) ==
    CASE f = "execute_sync_migration" ->
             {"verify_folder_exists", "collect_folder_contents", "create_folder",
              "_copy_file", "validate_file_transfer"}
      [] f = "_copy_file" -> {"get_file_details", "find_file_in_folder"}
      [] f = "validate_file_transfer" -> {"get_file_details"}
      [] f = "collect_folder_contents" -> {"_count_items"}
      [] f = "_count_items" -> {"_count_items"}
      [] f = "create_folder" -> {"find_folder_by_name", "verify_folder_exists"}
      [] f = "get_total_file_count" -> {"get_total_file_count"}
      [] OTHER -> {}
\* The functions that begin with self.cache.get(cache_key): FolderManager.py
\* lines 24, 61, 117, 144, 204, 227; FileManager.py lines 23, 44;
\* ValidationManager.py line 33.
GetsFirst(f) ==
    f \in {"_count_items", "get_folder_details", "find_folder_by_name",
           "collect_folder_contents", "get_folder_contents",
           "get_total_file_count", "get_file_details", "find_file_in_folder",
           "validate_file_transfer"}
\* The function whose body runs a cache.get: execute_sync_migration, in
\* validate_migration (ValidationManager.py line 85).
GetsInBody(f) == f = "execute_sync_migration"
\* The functions with a cache.set or cache.remove before a return:
\* FolderManager.py lines 52, 70, 99, 135, 198, 218, 256; FileManager.py lines
\* 31, 57; ValidationManager.py lines 45-71 and, for execute_sync_migration in
\* validate_migration, line 136.
PutsLast(f) ==
    f \in {"_count_items", "get_folder_details", "create_folder",
           "find_folder_by_name", "collect_folder_contents",
           "get_folder_contents", "get_total_file_count", "get_file_details",
           "find_file_in_folder", "validate_file_transfer",
           "execute_sync_migration"}
\* collect_folder_contents has no return between its cache.get and its
\* cache.set (lines 144-199), nor has validate_file_transfer
\* (ValidationManager.py lines 33-72).
AlwaysPuts(f) == f \in {"collect_folder_contents", "validate_file_transfer"}

Top(t) == stack[t][Len(stack[t])]
Inside(t, phase) == stack[t] # <<>> /\ Top(t).phase = phase
Phase(t, phase) ==
    stack' = [stack EXCEPT ![t][Len(stack[t])].phase = phase]
Pop(t) ==
    stack' = [stack EXCEPT ![t] = SubSeq(@, 1, Len(@) - 1)]
NestFrame ==
    /\ UNCHANGED <<clock, request_times, rate_limit, time_window, request_lock,
                   wwake, wcalls, wdone, wslept, admitted, retryVars, engVars>>
    /\ UNCHANGED <<report, cset, cgot, cfg_max_retries, prog_raised, singVars, stmtVars>>

\* Thread t calls the governed function f, from outside or from the body of
\* the governed function it is in, and reaches line 53 of wait_if_needed.
CallGoverned(t, f) ==
    /\ wpc[t] = "idle"
    /\ cache_lock # t
    /\ \/ stack[t] = <<>> /\ f \in TopLevel
       \/ Inside(t, "run") /\ f \in Callees(Top(t).f) /\ Len(stack[t]) < MaxDepth
    /\ wcalls + Cardinality(Waiting) < MaxGovernedCalls
    /\ clock <= MaxNestTime
    /\ stack' = [stack EXCEPT ![t] = Append(@, [f |-> f, phase |-> "admit",
                                                got |-> FALSE])]
    /\ wpc' = [wpc EXCEPT ![t] = "waiting"]
    /\ nested' = nested + (IF stack[t] = <<>> THEN 0 ELSE 1)
    /\ UNCHANGED cache_lock
    /\ NestFrame

\* wait_if_needed has returned (the request lock is released, line 74) and the
\* function begins: with cache.get, which takes the cache lock (APICache.py line
\* 33), or with its body.  The body of execute_sync_migration runs a cache.get
\* once, got telling that it has.  A thread outside of every governed call
\* runs cache.get as well, in get_missing_files_list (ValidationManager.py line
\* 168) or in validate_migration called by itself (line 85).
Outside(t) == stack[t] = <<>> /\ wpc[t] = "idle"
CacheGetEnter(t) ==
    /\ \/ Inside(t, "admit") /\ wpc[t] = "idle" /\ GetsFirst(Top(t).f)
       \/ Inside(t, "run") /\ wpc[t] = "idle" /\ GetsInBody(Top(t).f)
          /\ ~Top(t).got
       \/ Outside(t)
    /\ cache_lock = NoThread
    /\ cache_lock' = t
    /\ IF stack[t] = <<>>
       THEN UNCHANGED stack
       ELSE stack' = [stack EXCEPT ![t][Len(stack[t])].phase = "get",
                                   ![t][Len(stack[t])].got = TRUE]
    /\ UNCHANGED <<wpc, nested>>
    /\ NestFrame
BodyEnter(t) ==
    /\ Inside(t, "admit") /\ wpc[t] = "idle"
    /\ ~GetsFirst(Top(t).f)
    /\ Phase(t, "run")
    /\ UNCHANGED <<wpc, nested, cache_lock>>
    /\ NestFrame

\* cache.get leaves its `with` block, the lock released, and returns a value
\* or None (APICache.py lines 34-41).  On a hit the function returns it.
CacheGetLeaveHolding(t, hit) ==
    /\ Inside(t, "get")
    /\ IF hit THEN Pop(t) ELSE Phase(t, "run")
    /\ UNCHANGED <<wpc, nested, cache_lock>>
    /\ NestFrame
CacheGetLeave(t, hit) ==
    /\ Inside(t, "get") \/ (Outside(t) /\ cache_lock = t)
    /\ cache_lock' = NoThread
    /\ IF stack[t] = <<>> THEN UNCHANGED stack
       ELSE IF hit THEN Pop(t) ELSE Phase(t, "run")
    /\ UNCHANGED <<wpc, nested>>
    /\ NestFrame

\* The body ends with cache.set (or cache.remove), which takes the cache lock
\* (APICache.py lines 45 and 58), releases it, and the function returns.  A
\* thread outside of every governed call runs cache.remove in copy_files
\* (FileManager.py line 86) and cache.set in get_missing_files_list
\* (ValidationManager.py line 181) or validate_migration (line 136).
CachePutEnter(t) ==
    /\ \/ Inside(t, "run") /\ PutsLast(Top(t).f)
       \/ Outside(t)
    /\ cache_lock = NoThread
    /\ cache_lock' = t
    /\ IF stack[t] = <<>> THEN UNCHANGED stack ELSE Phase(t, "put")
    /\ UNCHANGED <<wpc, nested>>
    /\ NestFrame
CachePutLeave(t) ==
    /\ Inside(t, "put") \/ (Outside(t) /\ cache_lock = t)
    /\ cache_lock' = NoThread
    /\ IF stack[t] = <<>> THEN UNCHANGED stack ELSE Pop(t)
    /\ UNCHANGED <<wpc, nested>>
    /\ NestFrame
\* The function returns without writing to the cache.
ReturnGoverned(t) ==
    /\ Inside(t, "run")
    /\ ~AlwaysPuts(Top(t).f)
    /\ Pop(t)
    /\ UNCHANGED <<wpc, nested, cache_lock>>
    /\ NestFrame

InitNested ==
    /\ GovInit({1}, {1})
    /\ RetryIdle /\ EngineIdle /\ CacheIdle /\ ConfigDefault
    /\ SingletonsBuilt /\ NoGovernedCall /\ NoStatement /\ NoProgressError
\* Time passes, past MaxNestTime only while a sleeper waits for it.
TickNested ==
    /\ \/ clock < MaxNestTime
       \/ \E t \in Threads : wpc[t] = "sleeping" /\ wwake[t] > clock
    /\ TickRL
\* What a thread does without waiting for anybody.
Runs(t) ==
    \/ \E f \in TopLevel \cup UNION {Callees(g) : g \in TopLevel} : CallGoverned(t, f)
    \/ BodyEnter(t)
    \/ \E hit \in BOOLEAN : CacheGetLeave(t, hit)
    \/ CachePutLeave(t)
    \/ ReturnGoverned(t)
NextNested ==
    \/ \E t \in Threads : Runs(t)
    \/ \E t \in Threads : WaitEnter(t)
    \/ \E t \in Threads : WaitWake(t)
    \/ \E t \in Threads : CacheGetEnter(t)
    \/ \E t \in Threads : CachePutEnter(t)
    \/ TickNested
SpecNested == InitNested /\ [][NextNested]_vars
\* Time passes, every thread runs, and both locks are fair: a thread blocked on
\* a lock gets it after finitely many releases.
SpecNestedFair ==
    /\ SpecNested
    /\ WF_vars(TickNested)
    /\ \A t \in Threads :
          /\ WF_vars(Runs(t))
          /\ WF_vars(WaitWake(t))
          /\ SF_vars(WaitEnter(t))
          /\ SF_vars(CacheGetEnter(t))
          /\ SF_vars(CachePutEnter(t))

\* C38 (nested governed calls never deadlock): a thread in the body of a
\* governed function holds neither the request lock nor the cache lock, a
\* thread outside of every governed call does not hold the request lock, and
\* no thread holds both; a thread inside governed calls, however deep and with
\* the other thread making governed calls and using the cache on its own,
\* eventually is back outside of all of them: every call returns.
C38_LocksFree ==
    /\ \A t \in Threads :
          /\ Inside(t, "run") => request_lock # t /\ cache_lock # t
          /\ stack[t] = <<>> => request_lock # t
    /\ \A t \in Threads : ~(request_lock = t /\ cache_lock = t)
C38_EveryCallReturns ==
    \A t \in Threads : (stack[t] # <<>>) ~> (stack[t] = <<>>)
C38_NestedProceeds == []C38_LocksFree /\ C38_EveryCallReturns
\* One thread has made a governed call inside a governed call while the other
\* made a governed call, two of the calls slept in wait_if_needed, and every
\* call has returned.
C38_Witness ==
    /\ \A t \in Threads : stack[t] = <<>>
    /\ nested >= 1
    /\ wslept >= 2
    /\ wdone = MaxGovernedCalls

-----------------------------------------------------------------------------
\* The operations the managers offer besides the sync run: FileManager.
\* copy_files, ValidationManager.get_missing_files_list and FolderManager.
\* get_total_file_count, called one after another on the same singletons while
\* the service may fail remote calls.  copy_log records the calls.

MaxPublicCalls == 2     \* how many of the operations are called
MaxBatch == 2           \* how many files copy_files is given
PublicTrees ==
    {SourceTree(sa, sf, saf, "bin") \o DestTree(da, f, af, FALSE, "bin") :
        sa \in BOOLEAN, sf \in BOOLEAN, saf \in BOOLEAN, da \in BOOLEAN,
        f \in {"absent", "same", "size"}, af \in {"absent"}}
\* (file_id, dest_folder_id, file_name): a file of the source or an id the
\* service does not know, into a folder of the destination
CopyItems(st) ==
    {[file_id |-> n.id, dest_folder_id |-> d, file_name |-> n.name] :
        n \in {st[i] : i \in {j \in DOMAIN st : /\ st[j].mimeType # FolderMime
                                                /\ IsBelow(st, st[j], source_id)}},
        d \in {dest_id} \cup {st[i].id :
                   i \in {j \in DOMAIN st : /\ st[j].mimeType = FolderMime
                                           /\ IsBelow(st, st[j], dest_id)}}}
    \cup {[file_id |-> "s0", dest_folder_id |-> dest_id, file_name |-> NF]}
CopyBatches(st) ==
    UNION {[1..n -> CopyItems(st)] : n \in 1..MaxBatch}

PublicCalled(w, op, args) ==
    /\ Happens(w)
    /\ Commit(w)
    /\ copy_log' = Append(copy_log, [op |-> op, args |-> args, ret |-> w.ret])
PublicFrame ==
    /\ pc = "public"
    /\ idx < MaxPublicCalls
    /\ idx' = idx + 1
    /\ UNCHANGED report
    /\ UNCHANGED <<pc, results, source_files, source_folders, dest_files,
                   dest_folders, to_copy, all_paths, success, val>>
CopyFiles ==
    /\ PublicFrame
    /\ \E files \in CopyBatches(store), failAt \in FailPoints,
          failStatus \in FailStatuses :
         PublicCalled(copy_files(World(failAt, failStatus, FALSE), files),
                      "copy_files", files)
MissingFilesList ==
    /\ PublicFrame
    /\ \E failAt \in FailPoints, failStatus \in FailStatuses :
         PublicCalled(get_missing_files_list(World(failAt, failStatus, FALSE),
                                             source_id, dest_id),
                      "get_missing_files_list", <<source_id, dest_id>>)
TotalFileCount ==
    /\ PublicFrame
    /\ \E folder_id \in {source_id, dest_id}, failAt \in FailPoints,
          failStatus \in FailStatuses :
         PublicCalled(get_total_file_count(World(failAt, failStatus, FALSE),
                                           folder_id),
                      "get_total_file_count", <<folder_id>>)

InitPublic ==
    /\ GovInit({user_rate_limit}, {user_time_window})
    /\ RetryIdle
    /\ store \in PublicTrees
    /\ nextId = 1 /\ epoch = 0 /\ cache = <<>>
    /\ prog = ZeroProgress /\ calls = ZeroCalls /\ flog = <<>>
    /\ pc = "public" /\ run = 1 /\ max_runs = 1
    /\ fail_budget = MaxFailures
    /\ final_validation = FALSE
    /\ source_files = <<>> /\ source_folders = <<>>
    /\ dest_files = <<>> /\ dest_folders = <<>>
    /\ to_copy = <<>> /\ all_paths = <<>> /\ idx = 0 /\ success = TRUE
    /\ results = <<>> /\ ticks = 0 /\ dest_before = store
    /\ copy_log = <<>> /\ val = None /\ report = None
    /\ CacheIdle /\ ConfigDefault /\ SingletonsBuilt /\ NoGovernedCall /\ NoStatement /\ NoProgressError
NextPublic ==
    \/ CopyFiles
    \/ MissingFilesList
    \/ TotalFileCount
SpecPublic == InitPublic /\ [][NextPublic]_vars

-----------------------------------------------------------------------------
\* ProgressManager on its own: its public functions called in any order, at
\* any moment of a process.

MaxProgress == 3    \* direct calls go on while the counters sum to less
ProgressSum(stats) ==
    stats.total_files + stats.total_folders + stats.processed_files
    + stats.successful_copies + stats.failed_copies + stats.skipped_copies
    + stats.created_folders + stats.skipped_folders
\* update_progress is given a key of stats or another string
OperationTypes == DOMAIN ZeroProgress \cup {"other"}
ProgressFrame ==
    /\ ProgressSum(prog) < MaxProgress
    /\ UNCHANGED <<report, cset, cgot, cfg_max_retries, singVars, nestVars,
                   stmtVars>>
    /\ UNCHANGED <<govVars, retryVars>>
    /\ UNCHANGED <<store, nextId, epoch, cache, calls, flog, pc, run, max_runs,
                   fail_budget, final_validation, source_files, source_folders,
                   dest_files, dest_folders, to_copy, all_paths, idx, success,
                   results, ticks, dest_before, copy_log, val>>
IncrementFolderCount ==
    /\ ProgressFrame
    /\ prog' = increment_folder_count(prog)
    /\ prog_raised' = None
IncrementFileCount ==
    /\ ProgressFrame
    /\ prog' = increment_file_count(prog)
    /\ prog_raised' = None
SetTotalCounts ==
    /\ ProgressFrame
    /\ \E files \in 0..MaxProgress, folders \in 0..MaxProgress :
         prog' = set_total_counts(prog, files, folders)
    /\ prog_raised' = None
UpdateProgress ==
    /\ ProgressFrame
    /\ \E operation_type \in OperationTypes :
         /\ prog' = update_progress(prog, operation_type).stats
         /\ prog_raised' = update_progress(prog, operation_type).raised
NextProgress ==
    \/ IncrementFolderCount
    \/ IncrementFileCount
    \/ SetTotalCounts
    \/ UpdateProgress
SpecProgress == InitPublic /\ [][NextProgress]_vars

=============================================================================
